---------------------------- MODULE Spec2Model ----------------------------
(***************************************************************************)
(* A model of the poker-solver repository: the card encoding, the 5- and   *)
(* 7-card hand evaluator, the deck operations (cut, swap, shuffle, the two *)
(* order crossovers, the advanced mutations, the ACO constructor), the     *)
(* deal oracle and the two fitness functions.                              *)
(*                                                                         *)
(* Vectors are TLA+ sequences; the code's 0-based index i is position i+1. *)
(***************************************************************************)
EXTENDS Integers, Sequences, FiniteSets, TLC

VARIABLES
    deck,       \* the Deck the operations act on (Vec<Card>)
    mate,       \* a second Deck: parent2 of the crossovers
    child,      \* the crossovers' Vec<Option<Card>> after the fill loop (None is -1)
    fault,      \* "none", or the panic that ended the last operation
    lastOp,     \* the operation that produced deck
    steps,      \* operations applied so far
    cards5,     \* score_five_cards: the [Card; 5] argument
    score5,     \* score_five_cards: the (rank, high) returned, NoScore before the call
    hand7,      \* Hand::score: the Hand([Card; 7]) receiver, <<>> before the call
    score7,     \* Hand::score: the Entry (rank, hi) returned
    np,         \* num_players of the round dealt
    dealt,      \* the deck handed to deal_a_round (the cut deck)
    game,       \* the Game returned: players (hole cards) and common
    pile,       \* deal_a_round's local deck when it returns
    burns,      \* the three cards bound to _burn, in the order drawn
    scores,     \* players_score of every player, by seat
    winner,     \* winning_player (0-based), -1 before a round is scored
    dealerWins, \* dealer_wins
    origin,     \* "none", "deal" (deal_a_round) or "test" (a Game built by hand)
    real,       \* the `real` argument of num_wins and hybrid_score
    pc,         \* "idle", "num_wins", "hybrid_score" or "done"
    cutPos,     \* the cut position the running loop evaluates next
    numWins,    \* num_wins: elements counted so far, for deck and for mate
    wonCuts,    \* num_wins: the cut positions the filter kept, for deck and for mate
    hybWins,    \* hybrid_score: its local num_wins, for deck and for mate
    totalMargin,\* hybrid_score: its local total_margin, for deck and for mate
    hybrid      \* hybrid_score: the value returned, for deck and for mate

\* The search strategies (search.rs).  A deck of a search is held as its index
\* in Family; num_wins and hybrid_score of it are read from winsOf and marginOf.
VARIABLES
    winsOf,         \* num_wins(num_players, deck, table, REAL) of every deck of Family
    marginOf,       \* the total margin hybrid_score adds up for every deck of Family
    saStart,        \* local_search_sa: starting_deck
    saBudget,       \* local_search_sa: max_iterations
    saCurrent,      \* local_search_sa: current_deck
    saCurrentScore, \* local_search_sa: current_score
    saBest,         \* local_search_sa: best_deck
    saBestScore,    \* local_search_sa: best_score
    saBestWins,     \* local_search_sa: best_wins
    saIter,         \* local_search_sa: iterations of the loop completed
    saPc,           \* local_search_sa: "idle", "loop" or "returned"
    gaPop,          \* genetic_search: scored_population, a Vec<(Deck, usize)>
    gaGeneration,   \* genetic_search: generation
    gaBestScore,    \* genetic_search: best_score
    gaStale,        \* genetic_search: generations_without_improvement
    gaNewGeneration,\* genetic_search: new_generation as sorted by the last loop body
    gaMaxScored,    \* the highest score genetic_search has got from num_wins so far
    gaPc,           \* genetic_search: "idle", "loop" or "returned"
    gaResult,       \* genetic_search: the deck returned, 0 before
    printed         \* run_search: the deck printed after "Found optimal deck!", 0 before

\* simulated_annealing (search.rs): the worker threads, the relay threads that
\* join them, the channel and the main thread.
VARIABLES
    wPc,            \* per worker: "running", "returned" or "panicked"
    wCurrent,       \* per worker: current_deck
    wBest,          \* per worker: best_deck
    relayPc,        \* per relay thread: "unborn", "joining" or "done"
    senders,        \* the live senders of the channel: tx and its clones
    channel,        \* the messages sent and not yet received, oldest first
    sentLog,        \* every message sent so far, oldest first
    consumed,       \* the messages rx.recv() has handed to the main thread
    mainPc,         \* main thread: "idle", "spawn", "drop", "recv" or "returned"
    raceResult,     \* the deck simulated_annealing returned, 0 before
    returnCount     \* how many times simulated_annealing has returned

\* Deck::cut applied twice (deck.rs, test_cut_twice_roundtrip).
VARIABLES
    cutDeck,        \* the deck cut
    cutK,           \* the cut position
    cutRes,         \* cutDeck.cut(cutK)
    cutBack,        \* cutDeck.cut(cutK).cut(52 - cutK)
    cutPc           \* "idle", "start", "cut" or "back"

\* deal_a_round (game.rs), one Deck::draw at a time.
VARIABLES
    dealN,          \* num_players
    dealStart,      \* the deck handed to deal_a_round
    dealPile,       \* the local deck
    dealStep,       \* draws done so far
    dealPlayers,    \* players: the hole cards of every seat, None is -1
    dealCommon,     \* common: the community cards written so far
    dealBurns,      \* the cards bound to _burn
    dealPc          \* "idle", "dealing", "returned" or "panicked"

\* precompute and load_table (precompute.rs) and the all_hands iterator (hands.rs).
VARIABLES
    handsState,     \* Hands::state: the next hand's 7 card ids, <<>> for None
    handsDone,      \* hands precompute has serialized so far
    buffer,         \* precompute: the bytes put into `buffer`
    file,           \* the bytes that reached the output
    input,          \* load_table: `bs`, the bytes not yet consumed
    loaded,         \* load_table: `table`, a map from Hand to TableEntry
    loadCount,      \* load_table: iterations of its loop done
    overwrote,      \* whether an insert has replaced the value of a key
    tablePc         \* "idle", "precompute", "written", "write_err", "load",
                    \* "loaded", "load_err" or "load_panic"

\* AdvancedMutation::generate and apply (deck.rs).
VARIABLES
    mutRate,    \* generate_adaptive_mutations: mutation_rate in tenths
    mutWanted,  \* generate_adaptive_mutations: num_mutations
    mutPushed,  \* generate_adaptive_mutations: muts.len()
    mutLast,    \* the mutation generated last, or the one handed to apply
    mutDeck,    \* apply: the deck handed in
    mutOut,     \* apply: the deck returned
    mutFault,   \* apply: "none", or the panic that ended it
    mutPc       \* "idle", "start", "generating", "generated" or "applied"

\* The Hands iterator of all_hands() called until after it is exhausted (hands.rs).
VARIABLES
    enumState,   \* Hands::state, <<>> for None
    yielded,     \* the hands next() has returned, in order
    lastItem,    \* what the last call of next() returned, <<>> for None
    extraCalls,  \* calls of next() made after the iterator was exhausted
    enumPc       \* "idle" or "iterating"

\* Card, Value and Suit conversions (cards.rs).
VARIABLES
    cardId,     \* the u8 of the Card
    cardParts,  \* into_inner: the (Value, Suit) returned or the panic, <<>> before
    cardBack,   \* Card::new of the parts: the u8 of the card built, -1 before
    suitIn,     \* the Suit converted
    suitByte,   \* u8::from(suit), -1 before
    suitBack,   \* Suit::from of that byte
    cardPc      \* "idle" or "converting"

\* island_genetic_search: the islands, their threads and the migration.
VARIABLES
    islands,    \* islands[i]: the population of island i, a sequence of (deck, score)
    islPre,     \* the islands as the last migration found them, <<>> before
    islGen,     \* islGen[i]: generations the thread of island i has run in this cycle
    islCycle,   \* cycle
    islPc,      \* "evolve", "migrated" or "returned"
    islResult   \* the deck returned, 0 before

\* beam_search.
VARIABLES
    beam,           \* the beam, a sequence of (deck, wins, hybrid)
    beamIter,       \* iterations of the loop done
    beamBestScore,  \* best_score
    beamPc,         \* "loop", "returned" or "panicked"
    beamResult      \* the deck returned, 0 before

\* ant_colony_search.
VARIABLES
    acoAnts,       \* ants of the last iteration, sorted, a sequence of (deck, score)
    acoBestDeck,   \* best_ever_deck
    acoBestScore,  \* best_ever_score
    acoRestarts,   \* restart_count
    acoIter,       \* iterations done in this restart
    acoStale,      \* iterations_without_improvement
    acoPc,         \* "while", "for" or "returned"
    acoResult      \* the deck returned, 0 before

\* The table lookups of one dealt game (game.rs, precompute.rs).
VARIABLES
    lkDeck,   \* the deck evaluated
    lkN,      \* num_players
    lkCut,    \* cut_pos
    lkGame,   \* the Game dealt
    lkIdx,    \* the player whose score is looked up next
    lkHands,  \* the hands handed to the table for the last player scored
    lkFault,  \* the panic of the deal or of a lookup
    lkPc      \* "deal", "score", "done" or "panicked"

deckVars == <<deck, mate, child, fault, lastOp, steps>>

scoreVars == <<cards5, score5, hand7, score7>>

gameVars == <<np, dealt, game, pile, burns, scores, winner, dealerWins, origin>>

fitVars == <<real, pc, cutPos, numWins, wonCuts, hybWins, totalMargin, hybrid>>

oracleVars == <<winsOf, marginOf>>

saVars == <<saStart, saBudget, saCurrent, saCurrentScore, saBest, saBestScore,
            saBestWins, saIter, saPc>>

gaVars == <<gaPop, gaGeneration, gaBestScore, gaStale, gaNewGeneration, gaMaxScored,
            gaPc, gaResult, printed>>

raceVars == <<wPc, wCurrent, wBest, relayPc, senders, channel, sentLog, consumed,
              mainPc, raceResult, returnCount>>

cutVars == <<cutDeck, cutK, cutRes, cutBack, cutPc>>

dealVars == <<dealN, dealStart, dealPile, dealStep, dealPlayers, dealCommon, dealBurns,
              dealPc>>

tableVars == <<handsState, handsDone, buffer, file, input, loaded, loadCount, overwrote,
               tablePc>>

mutVars == <<mutRate, mutWanted, mutPushed, mutLast, mutDeck, mutOut, mutFault, mutPc>>

handsVars == <<enumState, yielded, lastItem, extraCalls, enumPc>>

cardVars == <<cardId, cardParts, cardBack, suitIn, suitByte, suitBack, cardPc>>

islVars == <<islands, islPre, islGen, islCycle, islPc, islResult>>

beamVars == <<beam, beamIter, beamBestScore, beamPc, beamResult>>

acoVars == <<acoAnts, acoBestDeck, acoBestScore, acoRestarts, acoIter, acoStale, acoPc, acoResult>>

lkVars == <<lkDeck, lkN, lkCut, lkGame, lkIdx, lkHands, lkFault, lkPc>>

lateVars == <<mutVars, handsVars, cardVars, islVars, beamVars, acoVars, lkVars>>

\* What an action of the part g leaves unchanged among these.
LateFrame(g) ==
    /\ IF g = "mut" THEN TRUE ELSE UNCHANGED mutVars
    /\ IF g = "hands" THEN TRUE ELSE UNCHANGED handsVars
    /\ IF g = "card" THEN TRUE ELSE UNCHANGED cardVars
    /\ IF g = "isl" THEN TRUE ELSE UNCHANGED islVars
    /\ IF g = "beam" THEN TRUE ELSE UNCHANGED beamVars
    /\ IF g = "aco" THEN TRUE ELSE UNCHANGED acoVars
    /\ IF g = "lk" THEN TRUE ELSE UNCHANGED lkVars

earlyVars == <<deckVars, scoreVars, gameVars, fitVars, saVars, gaVars,
               raceVars, cutVars, dealVars, tableVars>>

auxVars == <<raceVars, cutVars, dealVars, tableVars, lateVars>>

searchVars == <<oracleVars, saVars, gaVars, auxVars>>

vars == <<deckVars, scoreVars, gameVars, fitVars, searchVars>>

\* What the actions of each part leave unchanged.
deckOthers == <<scoreVars, gameVars, fitVars, searchVars>>

scoreOthers == <<deckVars, gameVars, fitVars, searchVars>>

gameOthers == <<deckVars, scoreVars, fitVars, searchVars>>

-----------------------------------------------------------------------------
(* Generic helpers for vectors.                                             *)

At(s, i) == s[i + 1]

Range(s) == {s[i] : i \in 1..Len(s)}

RECURSIVE InsertAsc(_, _)
InsertAsc(s, x) ==
    IF s = <<>> THEN <<x>>
    ELSE IF x <= Head(s) THEN <<x>> \o s
    ELSE <<Head(s)>> \o InsertAsc(Tail(s), x)

\* A variant of the sort that leaves the cards as they come.
RECURSIVE SortAscNot(_)
SortAscNot(s) == IF s = <<>> THEN <<>> ELSE <<Head(s)>> \o SortAscNot(Tail(s))

RECURSIVE SortAsc(_)
SortAsc(s) == IF s = <<>> THEN <<>> ELSE InsertAsc(SortAsc(Tail(s)), Head(s))

Reverse(s) == [i \in 1..Len(s) |-> s[Len(s) + 1 - i]]

SortDesc(s) == Reverse(SortAsc(s))

-----------------------------------------------------------------------------
(* cards.rs                                                                 *)

MAX_CARD == 51

Cards == 0..MAX_CARD

\* A variant of Card::new that scales the value, not the suit.
CardNewValueMajor(value, suit) == 4 * (value - 1) + suit

CardNew(value, suit) == (value - 1) + 13 * suit

CardValid(c) == c <= MAX_CARD

CardSuit(c) == c \div 13

CardValue(c) == (c % 13) + 1

-----------------------------------------------------------------------------
(* The random generator.  Rand32::rand_range(lo..hi) returns some value of  *)
(* lo..hi-1; a generator is modelled by the residues it yields: its n-th    *)
(* draw from lo..hi is lo + Raw(r, n) mod (hi - lo).                        *)

Streams ==
    {[sq |-> 0, mul |-> 0, add |-> 0],
     [sq |-> 0, mul |-> 1, add |-> 1],
     [sq |-> 1, mul |-> 3, add |-> 5]}

Raw(r, n) == r.sq * n * n + r.mul * n + r.add

StreamRange(r, n, lo, hi) == lo + (Raw(r, n) % (hi - lo))

\* The values a single rand_range(lo..hi) call is given in the model: the
\* first two values of the range and its last value.
RandRange(lo, hi) == {lo, lo + 1, hi - 1} \cap lo..(hi - 1)

-----------------------------------------------------------------------------
(* deck.rs: Deck                                                            *)

DECK_SIZE == 52

None == -1

NoFault == "none"

\* 52 cards that between them are all of 0..51: each card exactly once.
IsPermutation(d) ==
    /\ Len(d) = DECK_SIZE
    /\ Range(d) = Cards

\* Vec::swap(a, b) (0-based)
Swap(d, a, b) == [d EXCEPT ![a + 1] = d[b + 1], ![b + 1] = d[a + 1]]

\* A variant of Deck::cut that appends the drained cards in reverse order.
CutTakenReversed(d, pos) == SubSeq(d, pos + 1, Len(d)) \o Reverse(SubSeq(d, 1, pos))

\* Deck::cut(pos): drain(0..pos), then append the drained cards
Cut(d, pos) == SubSeq(d, pos + 1, Len(d)) \o SubSeq(d, 1, pos)

\* Deck::new_deck_order: value-major, suit-minor
NewDeckOrder ==
    [i \in 1..DECK_SIZE |-> CardNew(((i - 1) \div 4) + 1, (i - 1) % 4)]

\* Deck::shuffle: for i in 0..n-1, swap i with a position drawn from i..n
RECURSIVE ShuffleFrom(_, _, _)
ShuffleFrom(d, i, r) ==
    IF i >= Len(d) - 1 THEN d
    ELSE ShuffleFrom(Swap(d, i, StreamRange(r, i, i, Len(d))), i + 1, r)

Shuffle(d, r) == ShuffleFrom(d, 0, r)

\* The element of a set of one element.  An operator that uses an argument
\* several times takes its value through such a set, once.
Only(S) == CHOOSE x \in S : TRUE

\* child.iter().find(|x| x == Some(card)).is_some()
IsPlaced(ch, card) == \E s \in 1..Len(ch) : ch[s] = card

\* The inner "while let Some(_) = child.iter().find(..)" of the crossovers,
\* entered with idx < deck_size: the index of the next card of parent2 that
\* the child does not hold, or deck_size when the scan runs off the end.
\* A variant that takes the next card of parent2 whether or not it is placed.
SkipNothing(ch, parent2, idx) == idx

SkipPlaced(ch, parent2, idx) ==
    IF \E k \in idx..(Len(parent2) - 1) : ~IsPlaced(ch, At(parent2, k))
    THEN CHOOSE k \in idx..(Len(parent2) - 1) :
            /\ ~IsPlaced(ch, At(parent2, k))
            /\ \A j \in idx..(k - 1) : IsPlaced(ch, At(parent2, j))
    ELSE Len(parent2)

\* "if idx < deck_size { child[i] = Some(parent2.0[idx]); idx += 1; }" after
\* the scan has stopped at k: the child and the scan index it leaves.
Placed(ch, parent2, i, k) ==
    IF k < Len(parent2) THEN [ch EXCEPT ![i + 1] = At(parent2, k)] ELSE ch

ScanAfter(parent2, k) == IF k < Len(parent2) THEN k + 1 ELSE k

\* The fill loop "for i in 0..deck_size" of the crossovers, from slot i on
\* with the scan index idx.  Reading parent2.0[idx] with idx = deck_size is
\* an index panic; a slot still None at the end makes the final unwrap panic.
RECURSIVE FillFrom(_, _, _, _)
FillFrom(ch, parent2, i, idx) ==
    CASE i >= Len(ch) ->
           [child |-> ch,
            fault |-> IF \E s \in 1..Len(ch) : ch[s] = None THEN "unwrap" ELSE NoFault]
      [] i < Len(ch) /\ At(ch, i) # None ->
           FillFrom(ch, parent2, i + 1, idx)
      [] i < Len(ch) /\ At(ch, i) = None /\ idx >= Len(parent2) ->
           [child |-> ch, fault |-> "index"]
      [] OTHER ->
           FillFrom(Placed(ch, parent2, i, SkipPlaced(ch, parent2, idx)), parent2,
                    i + 1, ScanAfter(parent2, SkipPlaced(ch, parent2, idx)))

\* Deck::crossover with the two drawn points
Crossover(parent1, parent2, point1, point2) ==
    LET start == IF point1 < point2 THEN point1 ELSE point2
        end   == IF point1 < point2 THEN point2 ELSE point1
        seed  == [s \in 1..Len(parent1) |->
                    IF start <= s - 1 /\ s - 1 < end THEN parent1[s] ELSE None]
    IN  FillFrom(seed, parent2, 0, 0)

\* Deck::uniform_crossover with the coin flips of generator r
UniformCrossover(parent1, parent2, r) ==
    LET seed == [s \in 1..Len(parent1) |->
                    IF StreamRange(r, s - 1, 0, 2) = 0 THEN parent1[s] ELSE None]
    IN  FillFrom(seed, parent2, 0, 0)

-----------------------------------------------------------------------------
(* deck.rs: AdvancedMutation.  A mutation is a record: kind, and the fields *)
(* a, b, c in the order of the variant's fields.                            *)

Mut(kind, a, b, c) == [kind |-> kind, a |-> a, b |-> b, c |-> c]

Min2(x, y) == IF x < y THEN x ELSE y

Max2(x, y) == IF x < y THEN y ELSE x

\* The mutation rate in tenths (the callers pass 0.1, 0.2 and 0.3).
Rates == {1, 2, 3}

\* A variant of the low-rate branch that maps the draw onto all five types.
LowRateTypeAny(x) == x % 5

\* "match rng.rand_range(0..10)" of the low-rate branch
LowRateType(x) == IF x <= 5 THEN 0 ELSE IF x <= 8 THEN 2 ELSE 1

MutationTypes(rate) ==
    IF rate > 2 THEN 0..4 ELSE {LowRateType(x) : x \in 0..9}

\* AdvancedMutation::generate: the mutations it can return for a type
GenerateOfType(type) ==
    CASE type = 0 ->
           {Mut("Swap", a, b, 0) : a \in RandRange(0, 52), b \in RandRange(0, 52)}
      [] type = 1 ->
           UNION {{Mut("BlockSwap", s1, s2, len) :
                      s1 \in RandRange(0, 52 - len), s2 \in RandRange(0, 52 - len)} :
                  len \in RandRange(2, 8)}
      [] type = 2 ->
           {Mut("Reversal", Min2(a, b), Max2(a, b), 0) :
                a \in RandRange(0, 52), b \in RandRange(0, 52)}
      [] type = 3 ->
           {Mut("Rotation", pos, 0, 0) : pos \in RandRange(1, 52)}
      [] OTHER ->
           {Mut("Scramble", Min2(a, b), Min2(Max2(a, b), Min2(a, b) + 10), 0) :
                a \in RandRange(0, 52), b \in RandRange(0, 52)}

Generate(rate) == UNION {GenerateOfType(t) : t \in MutationTypes(rate)}

\* A variant that copies the second block over the first instead of swapping.
RECURSIVE BlockCopyFrom(_, _, _, _)
BlockCopyFrom(st, start1, start2, len) ==
    IF st.i >= len THEN st.deck
    ELSE BlockCopyFrom([deck |-> [st.deck EXCEPT ![start1 + st.i + 1] =
                                                  st.deck[start2 + st.i + 1]],
                        i    |-> st.i + 1],
                       start1, start2, len)

\* "for i in 0..len { deck.0.swap(start1 + i, start2 + i) }", from the state
\* st of the loop on: the deck so far and i.
RECURSIVE BlockSwapFrom(_, _, _, _)
BlockSwapFrom(st, start1, start2, len) ==
    IF st.i >= len THEN st.deck
    ELSE BlockSwapFrom([deck |-> Swap(st.deck, start1 + st.i, start2 + st.i),
                        i    |-> st.i + 1],
                       start1, start2, len)

\* "deck.0[start..end].reverse()"
ReverseSlice(d, start, end) ==
    [s \in 1..Len(d) |->
        IF start <= s - 1 /\ s - 1 < end THEN d[start + end - (s - 1)] ELSE d[s]]

\* "for i in start..end { j = rand_range(i..end); deck.0.swap(i, j) }", from
\* the state st of the loop on: the deck so far and i.
RECURSIVE ScrambleFrom(_, _, _)
ScrambleFrom(st, end, r) ==
    IF st.i >= end THEN st.deck
    ELSE ScrambleFrom([deck |-> Swap(st.deck, st.i, StreamRange(r, st.i, st.i, end)),
                       i    |-> st.i + 1],
                      end, r)

\* AdvancedMutation::apply: the deck returned, or the panic
Apply(m, d, r) ==
    CASE m.kind = "Swap" ->
           IF m.a >= Len(d) \/ m.b >= Len(d)
           THEN [deck |-> d, fault |-> "index"]
           ELSE [deck |-> Swap(d, m.a, m.b), fault |-> NoFault]
      [] m.kind = "BlockSwap" ->
           IF m.a + m.c > 52 \/ m.b + m.c > 52 \/ m.a = m.b
           THEN [deck |-> d, fault |-> NoFault]
           ELSE [deck |-> BlockSwapFrom([deck |-> d, i |-> 0], m.a, m.b, m.c), fault |-> NoFault]
      [] m.kind = "Reversal" ->
           IF m.a < m.b /\ m.b <= 52
           THEN IF m.b > Len(d)
                THEN [deck |-> d, fault |-> "index"]
                ELSE [deck |-> ReverseSlice(d, m.a, m.b), fault |-> NoFault]
           ELSE [deck |-> d, fault |-> NoFault]
      [] m.kind = "Rotation" ->
           IF m.a > Len(d)
           THEN [deck |-> d, fault |-> "index"]
           ELSE [deck |-> Cut(d, m.a), fault |-> NoFault]
      [] OTHER ->
           IF m.a < m.b /\ m.b <= 52
           THEN IF m.b > Len(d)
                THEN [deck |-> d, fault |-> "index"]
                ELSE [deck |-> ScrambleFrom([deck |-> d, i |-> m.a], m.b, r), fault |-> NoFault]
           ELSE [deck |-> d, fault |-> NoFault]

-----------------------------------------------------------------------------
(* search.rs: build_deck_constructively.  The roulette wheel (pheromone,    *)
(* heuristic and spin are floats) selects one of the available cards, or    *)
(* available_cards[0] when no slice of the wheel is hit; the model lets the *)
(* generator pick the index of the selected card.                           *)

Retain(s, c) == SelectSeq(s, LAMBDA x : x # c)

\* deck_cards holds one card per position passed, so it is full, 52 cards,
\* exactly when the loop "for position in 0..52" ends.
RECURSIVE BuildFrom(_, _, _, _)
BuildFrom(available, deckCards, position, r) ==
    IF position >= 52 \/ Len(deckCards) >= 52 THEN deckCards
    ELSE LET selected == At(available, StreamRange(r, position, 0, Len(available)))
         IN  BuildFrom(Retain(available, selected), Append(deckCards, selected),
                       position + 1, r)

BuildDeckConstructively(r) == BuildFrom([i \in 1..52 |-> i - 1], <<>>, 0, r)

-----------------------------------------------------------------------------
(* hands.rs: score_five_cards and Hand::score                               *)

NoScore == [rank |-> 0, hi |-> 0]

HighCard(values) ==
    IF values[1] = 1
    THEN IF values = <<1, 2, 3, 4, 5>> THEN 5 ELSE 14
    ELSE values[5]

IsFlush(suits) == \A i \in 1..5 : suits[i] = suits[1]

\* A variant without the ace-high case.
IsStraightNoAceHigh(values) ==
    /\ values[2] = values[1] + 1
    /\ values[3] = values[2] + 1
    /\ values[4] = values[3] + 1
    /\ values[5] = values[4] + 1

IsStraight(values) ==
    IF values = <<1, 10, 11, 12, 13>> THEN TRUE
    ELSE /\ values[2] = values[1] + 1
         /\ values[3] = values[2] + 1
         /\ values[4] = values[3] + 1
         /\ values[5] = values[4] + 1

\* The loop of lines 132..154: one count per distinct value, in the order the
\* values are first met; the unused tail of unique_counts stays 0.
RECURSIVE UniqueCountsFrom(_, _, _, _)
UniqueCountsFrom(values, i, uniqueValues, uniqueCounts) ==
    IF i > 5 THEN uniqueCounts
    ELSE IF \E j \in 1..Len(uniqueValues) : uniqueValues[j] = values[i]
    THEN UniqueCountsFrom(values, i + 1, uniqueValues, uniqueCounts)
    ELSE UniqueCountsFrom(values, i + 1,
             Append(uniqueValues, values[i]),
             Append(uniqueCounts, Cardinality({j \in 1..5 : values[j] = values[i]})))

SortedCounts(values) ==
    LET counts == SortDesc(UniqueCountsFrom(values, 1, <<>>, <<>>))
    IN  [i \in 1..5 |-> IF i <= Len(counts) THEN counts[i] ELSE 0]

\* A variant without the straight rule.
HandRankNoStraight(c1, c2, flush, straight) ==
    IF flush /\ straight THEN 9
    ELSE IF c1 = 4 THEN 8
    ELSE IF c1 = 3 /\ c2 = 2 THEN 7
    ELSE IF flush /\ ~straight THEN 6
    ELSE IF c1 = 3 THEN 4
    ELSE IF c1 = 2 /\ c2 = 2 THEN 3
    ELSE IF c1 = 2 THEN 2
    ELSE 1

HandRank(c1, c2, flush, straight) ==
    IF flush /\ straight THEN 9
    ELSE IF c1 = 4 THEN 8
    ELSE IF c1 = 3 /\ c2 = 2 THEN 7
    ELSE IF flush /\ ~straight THEN 6
    ELSE IF ~flush /\ straight THEN 5
    ELSE IF c1 = 3 THEN 4
    ELSE IF c1 = 2 /\ c2 = 2 THEN 3
    ELSE IF c1 = 2 THEN 2
    ELSE 1

ScoreFiveCards(cards) ==
    LET values == SortAsc([i \in 1..5 |-> CardValue(cards[i])])
        suits  == [i \in 1..5 |-> CardSuit(cards[i])]
        sorted == SortedCounts(values)
    IN  [rank |-> HandRank(sorted[1], sorted[2], IsFlush(suits), IsStraight(values)),
         hi   |-> HighCard(values)]

\* A variant of the order that compares the ranks only.
ScoreLessRankOnly(a, b) == a.rank < b.rank

\* TableEntry's Ord: lexicographic on (rank, hi).
ScoreLess(a, b) == a.rank < b.rank \/ (a.rank = b.rank /\ a.hi < b.hi)

ScoreMax(a, b) == IF ScoreLess(a, b) THEN b ELSE a

\* The nested loops "for i in 0..n, for j in (i+1)..n, ..." as the list of the
\* k-element increasing index tuples drawn from lo..n, in the loops' order.
RECURSIVE IndexTuples(_, _, _)
IndexTuples(n, k, lo) ==
    IF k = 0 THEN << <<>> >>
    ELSE IF lo > n THEN <<>>
    ELSE LET rest == IndexTuples(n, k - 1, lo + 1)
         IN  [t \in 1..Len(rest) |-> <<lo>> \o rest[t]] \o IndexTuples(n, k, lo + 1)

FiveOfSeven == IndexTuples(7, 5, 1)

FiveOfFive == IndexTuples(5, 5, 1)

\* The body of the innermost loop of Hand::score, for the t-th index tuple on:
\* score the five cards, keep them when they beat the best so far.
RECURSIVE BestOver(_, _, _)
BestOver(hand, combos, st) ==
    IF st.t > Len(combos) THEN st.best
    ELSE BestOver(hand, combos,
            [t    |-> st.t + 1,
             best |-> LET q == combos[st.t]
                          s == ScoreFiveCards([a \in 1..5 |-> hand[q[a]]])
                      IN  IF s.rank > st.best.rank
                             \/ (s.rank = st.best.rank /\ s.hi > st.best.hi)
                          THEN s ELSE st.best])

HandScore(hand) ==
    BestOver(hand, IF Len(hand) = 7 THEN FiveOfSeven ELSE FiveOfFive,
             [t |-> 1, best |-> NoScore])

-----------------------------------------------------------------------------
(* precompute.rs: the score table.  precompute writes hand.score() for every *)
(* hand of all_hands() and load_table reads the records back, so a lookup of *)
(* a 7-card hand returns Hand::score of it.  game.rs looks up the 5-card     *)
(* hands it builds; the entry of a 5-card key is the score of those five     *)
(* cards.                                                                    *)

TableScore(hand) ==
    IF Len(hand) = 7 THEN HandScore(hand) ELSE ScoreFiveCards(hand)

-----------------------------------------------------------------------------
(* game.rs: deal_a_round and Game                                           *)

NoGame == [players |-> <<>>, common |-> <<>>]

\* A variant of Deck::draw that takes the first card of the vector.
DrawFirst(d) == [card |-> d[1], deck |-> SubSeq(d, 2, Len(d))]

\* Deck::draw: pop the last card (the caller has checked the deck is not empty)
Draw(d) == [card |-> d[Len(d)], deck |-> SubSeq(d, 1, Len(d) - 1)]

\* n consecutive draws: the cards in the order drawn, and the deck left
RECURSIVE DrawLoop(_)
DrawLoop(st) ==
    IF st.left = 0 THEN [cards |-> st.cards, deck |-> st.deck]
    ELSE DrawLoop([cards |-> Append(st.cards, Draw(st.deck).card),
                   deck  |-> Draw(st.deck).deck,
                   left  |-> st.left - 1])

DrawMany(d, n) == DrawLoop([cards |-> <<>>, deck |-> d, left |-> n])

\* deal_a_round: two passes of hole cards in seat order, then burn, three
\* community cards, burn, one, burn, one.  A draw from an empty deck panics.
DealARound(numPlayers, d) ==
    IF Len(d) < 2 * numPlayers + 8
    THEN [game |-> NoGame, pile |-> <<>>, burns |-> <<>>, fault |-> "unwrap"]
    ELSE LET holes == DrawMany(d, 2 * numPlayers)
             burn1 == Draw(holes.deck)
             flop  == DrawMany(burn1.deck, 3)
             burn2 == Draw(flop.deck)
             turn  == Draw(burn2.deck)
             burn3 == Draw(turn.deck)
             river == Draw(burn3.deck)
         IN  [game  |-> [players |-> [p \in 1..numPlayers |->
                                         <<holes.cards[p], holes.cards[numPlayers + p]>>],
                         common  |-> flop.cards \o <<turn.card, river.card>>],
              pile  |-> river.deck,
              burns |-> <<burn1.card, burn2.card, burn3.card>>,
              fault |-> NoFault]

ThreeOfFive == IndexTuples(5, 3, 1)

FourOfFive == IndexTuples(5, 4, 1)

\* A variant of the hands of players_score: only 2 hole + 3 community cards.
PlayerHandsTwoHole(g, idx) ==
    LET hole == g.players[idx + 1]
        com  == g.common
    IN  [t \in 1..Len(ThreeOfFive) |->
            SortAsc(<<hole[1], hole[2], com[ThreeOfFive[t][1]],
                      com[ThreeOfFive[t][2]], com[ThreeOfFive[t][3]]>>)]

\* The hands players_score pushes, in order: 2 hole + 3 community cards,
\* 1 hole + 4 community cards for each hole card, the 5 community cards.
PlayerHands(g, idx) ==
    LET hole == g.players[idx + 1]
        com  == g.common
        two  == [t \in 1..Len(ThreeOfFive) |->
                    SortAsc(<<hole[1], hole[2], com[ThreeOfFive[t][1]],
                              com[ThreeOfFive[t][2]], com[ThreeOfFive[t][3]]>>)]
        one(h) == [t \in 1..Len(FourOfFive) |->
                    SortAsc(<<hole[h], com[FourOfFive[t][1]], com[FourOfFive[t][2]],
                              com[FourOfFive[t][3]], com[FourOfFive[t][4]]>>)]
    IN  two \o one(1) \o one(2) \o <<SortAsc(com)>>

\* "hands.iter().map(|hand| table.score(hand)).max()" from the t-th hand on
RECURSIVE MaxScoreFrom(_, _)
MaxScoreFrom(hands, st) ==
    IF st.t > Len(hands) THEN st.best
    ELSE MaxScoreFrom(hands, [t    |-> st.t + 1,
                              best |-> ScoreMax(st.best, TableScore(hands[st.t]))])

\* Game::players_score
PlayersScore(g, idx) ==
    LET hands == PlayerHands(g, idx)
    IN  MaxScoreFrom(hands, [t |-> 2, best |-> TableScore(hands[1])])

AllScores(g) == [p \in 1..Len(g.players) |-> PlayersScore(g, p - 1)]

\* A variant of max_by_key that keeps the first of several equal maxima.
RECURSIVE FirstMaxFrom(_, _, _)
FirstMaxFrom(sc, idx, best) ==
    IF idx >= Len(sc) THEN best
    ELSE FirstMaxFrom(sc, idx + 1, IF ScoreLess(At(sc, best), At(sc, idx)) THEN idx ELSE best)

\* Iterator::max_by_key over 0..players.len(): the fold keeps the later
\* element unless the earlier one is strictly greater, so of several equal
\* maxima the last is returned.
RECURSIVE MaxByKeyFrom(_, _, _)
MaxByKeyFrom(sc, idx, best) ==
    IF idx >= Len(sc) THEN best
    ELSE MaxByKeyFrom(sc, idx + 1, IF ScoreLess(At(sc, idx), At(sc, best)) THEN best ELSE idx)

\* Game::winning_player, from the players' scores
WinningPlayer(sc) == MaxByKeyFrom(sc, 1, 0)

\* Game::dealer_wins
DealerWins(sc) == WinningPlayer(sc) = 0

\* dealer_wins_game: deal_a_round(num_players, deck).dealer_wins(table)
DealerWinsGame(numPlayers, d) == DealerWins(AllScores(DealARound(numPlayers, d).game))

\* max_wins
MaxWins(r) == IF r THEN 52 - 10 ELSE 52

\* A variant of the ranges that includes their upper ends.
CutEndInclusive(r) == IF r THEN 48 ELSE 53

\* The cut positions of num_wins_total (0..52) and num_realistic_wins (5..47)
\* and of hybrid_score's `positions`: from CutFirst up to, not including, CutEnd.
CutFirst(r) == IF r THEN 5 ELSE 0

CutEnd(r) == IF r THEN 47 ELSE 52

\* TableEntry::to_score: the projection rank * 16 + high.
ToScore(e) == e.rank * 16 + e.hi

\* (1..num_players).map(players_score).max(): the best opponent's score.
RECURSIVE BestScoreFrom(_, _, _)
BestScoreFrom(sc, p, best) ==
    IF p > Len(sc) THEN best
    ELSE BestScoreFrom(sc, p + 1, ScoreMax(best, sc[p]))

BestOpponentScore(sc) == BestScoreFrom(sc, 3, sc[2])

\* position_margin, and the margin of hybrid_score's loop body.
PositionMargin(numPlayers, d, pos) ==
    LET g  == DealARound(numPlayers, Cut(d, pos)).game
        sc == AllScores(g)
    IN  ToScore(sc[1]) - ToScore(BestOpponentScore(sc))

WIN_WEIGHT == 100000

\* A variant of the value returned that leaves the weight out.
HybridValueUnweighted(wins, margin) == wins + margin

\* hybrid_score's return value: (num_wins as f64) * WIN_WEIGHT + total_margin
HybridValue(wins, margin) == wins * WIN_WEIGHT + margin

-----------------------------------------------------------------------------
(* Each specification below drives one part of the program and leaves the   *)
(* variables of the other parts at these values.                            *)

\* The deck variables of a specification that does not use them.
DeckIdle ==
    /\ deck = <<>>
    /\ mate = <<>>
    /\ child = <<>>
    /\ fault = NoFault
    /\ lastOp = "idle"
    /\ steps = 0

\* The evaluator variables of a specification that does not use them.
ScoreIdle ==
    /\ cards5 = <<>>
    /\ score5 = NoScore
    /\ hand7 = <<>>
    /\ score7 = NoScore

\* The game variables of a specification that does not use them.
GameIdle ==
    /\ np = 0
    /\ dealt = <<>>
    /\ game = NoGame
    /\ pile = <<>>
    /\ burns = <<>>
    /\ scores = <<>>
    /\ winner = -1
    /\ dealerWins = FALSE
    /\ origin = "none"

\* The fitness variables of a specification that does not use them.
FitIdle ==
    /\ real = FALSE
    /\ pc = "idle"
    /\ cutPos = 0
    /\ numWins = <<0, 0>>
    /\ wonCuts = <<{}, {}>>
    /\ hybWins = <<0, 0>>
    /\ totalMargin = <<0, 0>>
    /\ hybrid = <<0, 0>>

\* The oracle variables of a specification that scores no deck of Family.
OracleIdle ==
    /\ winsOf = <<>>
    /\ marginOf = <<>>

\* The variables of local_search_sa while it is not called.
SaIdle ==
    /\ saStart = 0
    /\ saBudget = 0
    /\ saCurrent = 0
    /\ saCurrentScore = 0
    /\ saBest = 0
    /\ saBestScore = 0
    /\ saBestWins = 0
    /\ saIter = 0
    /\ saPc = "idle"

\* The variables of genetic_search and run_search while they are not called.
GaIdle ==
    /\ gaPop = <<>>
    /\ gaGeneration = 0
    /\ gaBestScore = 0
    /\ gaStale = 0
    /\ gaNewGeneration = <<>>
    /\ gaMaxScored = 0
    /\ gaPc = "idle"
    /\ gaResult = 0
    /\ printed = 0

\* The variables of simulated_annealing while it is not called.
RaceIdle ==
    /\ wPc = <<>>
    /\ wCurrent = <<>>
    /\ wBest = <<>>
    /\ relayPc = <<>>
    /\ senders = 0
    /\ channel = <<>>
    /\ sentLog = <<>>
    /\ consumed = <<>>
    /\ mainPc = "idle"
    /\ raceResult = 0
    /\ returnCount = 0

\* The variables of the double cut while it is not run.
CutIdle ==
    /\ cutDeck = <<>>
    /\ cutK = 0
    /\ cutRes = <<>>
    /\ cutBack = <<>>
    /\ cutPc = "idle"

\* The variables of the stepwise deal while it is not run.
DealIdle ==
    /\ dealN = 0
    /\ dealStart = <<>>
    /\ dealPile = <<>>
    /\ dealStep = 0
    /\ dealPlayers = <<>>
    /\ dealCommon = <<>>
    /\ dealBurns = <<>>
    /\ dealPc = "idle"

\* The variables of precompute and load_table while they are not called.
TableIdle ==
    /\ handsState = <<>>
    /\ handsDone = 0
    /\ buffer = <<>>
    /\ file = <<>>
    /\ input = <<>>
    /\ loaded = <<>>
    /\ loadCount = 0
    /\ overwrote = FALSE
    /\ tablePc = "idle"

\* The variables of this part while it is not run.
MutIdle ==
    /\ mutRate = 0
    /\ mutWanted = 0
    /\ mutPushed = 0
    /\ mutLast = Mut("None", 0, 0, 0)
    /\ mutDeck = <<>>
    /\ mutOut = <<>>
    /\ mutFault = NoFault
    /\ mutPc = "idle"

\* The variables of this part while it is not run.
HandsIdle ==
    /\ enumState = <<>>
    /\ yielded = <<>>
    /\ lastItem = <<>>
    /\ extraCalls = 0
    /\ enumPc = "idle"

\* The variables of this part while it is not run.
CardIdle ==
    /\ cardId = 0
    /\ cardParts = <<>>
    /\ cardBack = -1
    /\ suitIn = "none"
    /\ suitByte = -1
    /\ suitBack = "none"
    /\ cardPc = "idle"

\* The variables of this part while it is not run.
IslIdle ==
    /\ islands = <<>>
    /\ islPre = <<>>
    /\ islGen = <<>>
    /\ islCycle = 0
    /\ islPc = "idle"
    /\ islResult = 0

\* The variables of this part while it is not run.
BeamIdle ==
    /\ beam = <<>>
    /\ beamIter = 0
    /\ beamBestScore = 0
    /\ beamPc = "idle"
    /\ beamResult = 0

\* The variables of this part while it is not run.
AcoIdle ==
    /\ acoAnts = <<>>
    /\ acoBestDeck = 0
    /\ acoBestScore = 0
    /\ acoRestarts = 0
    /\ acoIter = 0
    /\ acoStale = 0
    /\ acoPc = "idle"
    /\ acoResult = 0

\* The variables of this part while it is not run.
LkIdle ==
    /\ lkDeck = <<>>
    /\ lkN = 0
    /\ lkCut = 0
    /\ lkGame = NoGame
    /\ lkIdx = 0
    /\ lkHands = <<>>
    /\ lkFault = NoFault
    /\ lkPc = "idle"

LateIdle == MutIdle /\ HandsIdle /\ CardIdle /\ IslIdle /\ BeamIdle /\ AcoIdle /\ LkIdle

\* Every part but g is not run.
LateIdleBut(g) ==
    /\ IF g = "mut" THEN TRUE ELSE MutIdle
    /\ IF g = "hands" THEN TRUE ELSE HandsIdle
    /\ IF g = "card" THEN TRUE ELSE CardIdle
    /\ IF g = "isl" THEN TRUE ELSE IslIdle
    /\ IF g = "beam" THEN TRUE ELSE BeamIdle
    /\ IF g = "aco" THEN TRUE ELSE AcoIdle
    /\ IF g = "lk" THEN TRUE ELSE LkIdle

EarlyIdle ==
    /\ DeckIdle /\ ScoreIdle /\ GameIdle /\ FitIdle /\ SaIdle /\ GaIdle
    /\ RaceIdle /\ CutIdle /\ DealIdle /\ TableIdle

AuxIdle == RaceIdle /\ CutIdle /\ DealIdle /\ TableIdle /\ LateIdle

\* The search variables of a specification that does not use them.
SearchIdle == OracleIdle /\ SaIdle /\ GaIdle /\ AuxIdle

-----------------------------------------------------------------------------
(* The inputs of the evaluator: every multiset of five card values (at most *)
(* four of a value), once in one suit where the values allow it and once in *)
(* mixed suits.  The evaluator reads the suits only through "all equal".    *)

ValueTuples ==
    {v \in [1..5 -> 1..13] :
        /\ \A i \in 1..4 : v[i] <= v[i + 1]
        /\ v[1] # v[5]}

AllDistinct(v) == \A i \in 1..4 : v[i] # v[i + 1]

Occurrence(v, i) == Cardinality({j \in 1..(i - 1) : v[j] = v[i]})

MakeHand(v, oneSuit) ==
    SortAsc([i \in 1..5 |->
        CardNew(v[i], IF AllDistinct(v)
                      THEN (IF ~oneSuit /\ i = 5 THEN 1 ELSE 0)
                      ELSE Occurrence(v, i))])

FiveCardInputs ==
    {MakeHand(v, FALSE) : v \in ValueTuples}
        \cup {MakeHand(v, TRUE) : v \in {w \in ValueTuples : AllDistinct(w)}}

\* 2 of hearts and 3 of diamonds: the cards the tests of hands.rs add to a
\* five-card hand to make a seven-card one.
ExtraCards == {CardNew(2, 2), CardNew(3, 3)}

ScoreInit ==
    /\ DeckIdle
    /\ GameIdle
    /\ FitIdle
    /\ SearchIdle
    /\ cards5 \in FiveCardInputs
    /\ score5 = NoScore
    /\ hand7 = <<>>
    /\ score7 = NoScore

\* score_five_cards(cards5)
ScoreFive ==
    /\ score5 = NoScore
    /\ score5' = ScoreFiveCards(cards5)
    /\ UNCHANGED <<cards5, hand7, score7>>
    /\ UNCHANGED scoreOthers

\* Hand(cards5 and two more cards, sorted).score()
ScoreSeven ==
    /\ score5 # NoScore
    /\ hand7 = <<>>
    /\ \E x, y \in ExtraCards \ Range(cards5) :
          /\ x < y
          /\ hand7' = SortAsc(cards5 \o <<x, y>>)
          /\ score7' = HandScore(hand7')
    /\ UNCHANGED <<cards5, score5>>
    /\ UNCHANGED scoreOthers

ScoreNext == ScoreFive \/ ScoreSeven

SpecScore == ScoreInit /\ [][ScoreNext]_vars

-----------------------------------------------------------------------------
(* C7: the ranking rules, stated on the set of cards rather than on the     *)
(* sorted arrays the code works on.                                         *)

ValueCount(cards, v) == Cardinality({i \in 1..Len(cards) : CardValue(cards[i]) = v})

ValuesOf(cards) == {CardValue(cards[i]) : i \in 1..Len(cards)}

SuitsOf(cards) == {CardSuit(cards[i]) : i \in 1..Len(cards)}

MaxOf(S) == CHOOSE x \in S : \A y \in S : y <= x

MinOf(S) == CHOOSE x \in S : \A y \in S : x <= y

RuleStraight(cards) ==
    /\ Cardinality(ValuesOf(cards)) = 5
    /\ \/ MaxOf(ValuesOf(cards)) - MinOf(ValuesOf(cards)) = 4
       \/ ValuesOf(cards) = {1, 2, 3, 4, 5}
       \/ ValuesOf(cards) = {10, 11, 12, 13, 1}

RuleFlush(cards) == Cardinality(SuitsOf(cards)) = 1

RuleOfAKind(cards, n) == {v \in 1..13 : ValueCount(cards, v) = n}

RuleRank(cards) ==
    CASE RuleStraight(cards) /\ RuleFlush(cards) -> 9
      [] OTHER ->
    CASE RuleOfAKind(cards, 4) # {} -> 8
      [] OTHER ->
    CASE RuleOfAKind(cards, 3) # {} /\ RuleOfAKind(cards, 2) # {} -> 7
      [] OTHER ->
    CASE RuleFlush(cards) -> 6
      [] OTHER ->
    CASE RuleStraight(cards) -> 5
      [] OTHER ->
    CASE RuleOfAKind(cards, 3) # {} -> 4
      [] OTHER ->
    CASE Cardinality(RuleOfAKind(cards, 2)) = 2 -> 3
      [] OTHER ->
    CASE Cardinality(RuleOfAKind(cards, 2)) = 1 -> 2
      [] OTHER -> 1

RuleHigh(cards) ==
    IF ValuesOf(cards) = {1, 2, 3, 4, 5} THEN 5
    ELSE IF 1 \in ValuesOf(cards) THEN 14
    ELSE MaxOf(ValuesOf(cards))

RoyalOf(suit) == {CardNew(v, suit) : v \in {10, 11, 12, 13, 1}}

\* C7: score_five_cards returns the rank of the first matching rule (straight
\* flush 9, four of a kind 8, full house 7, flush 6, straight 5, three of a
\* kind 4, two pairs 3, one pair 2, else 1) and the high card (5 for the
\* wheel, 14 with any other ace, else the largest value); the rank is in 1..9,
\* the high card in 1..14, and a 7-card hand holding 10-J-Q-K-A of one suit
\* scores (9, 14).
C7_ScoreFiveRules ==
    /\ score5 # NoScore =>
          /\ score5.rank = RuleRank(cards5)
          /\ score5.hi = RuleHigh(cards5)
          /\ score5.rank \in 1..9
          /\ score5.hi \in 1..14
    /\ (score7 # NoScore /\ \E suit \in 0..3 : RoyalOf(suit) \subseteq Range(hand7)) =>
          score7 = [rank |-> 9, hi |-> 14]

\* A royal flush has been scored inside a 7-card hand, after a wheel-free
\* five-card call.
C7_Witness ==
    /\ score5 = [rank |-> 9, hi |-> 14]
    /\ score7 # NoScore
    /\ RoyalOf(0) \subseteq Range(hand7)

-----------------------------------------------------------------------------
(* The deck operations as a state machine: one deck, to which the           *)
(* operations of deck.rs and the ACO constructor are applied, and a second  *)
(* deck that serves as the other parent of the crossovers.                  *)

MaxSteps == 2

CutPositions == {0, 17, 35, 52}

DeckOps == {"new", "shuffle", "cut", "swap", "mutation", "aco"}

CrossOps == {"crossover", "uniform_crossover"}

DeckInit ==
    /\ deck = NewDeckOrder
    /\ mate = Shuffle(NewDeckOrder, CHOOSE r \in Streams : r.sq = 1)
    /\ child = <<>>
    /\ fault = NoFault
    /\ lastOp = "new"
    /\ steps = 0
    /\ ScoreIdle
    /\ GameIdle
    /\ FitIdle
    /\ SearchIdle

CanStep == fault = NoFault /\ steps < MaxSteps

Becomes(d, op) ==
    /\ deck' = d
    /\ lastOp' = op
    /\ steps' = steps + 1
    /\ UNCHANGED <<mate, child, fault>>
    /\ UNCHANGED deckOthers

DoShuffle ==
    /\ CanStep
    /\ \E r \in Streams : Becomes(Shuffle(deck, r), "shuffle")

DoCut ==
    /\ CanStep
    /\ \E pos \in CutPositions : Becomes(Cut(deck, pos), "cut")

DoSwap ==
    /\ CanStep
    /\ \E a, b \in RandRange(0, 52) : Becomes(Swap(deck, a, b), "swap")

DoMutate ==
    /\ CanStep
    /\ \E m \in UNION {Generate(rate) : rate \in Rates} :
          \E r \in (IF m.kind = "Scramble" THEN Streams
                     ELSE {CHOOSE r0 \in Streams : TRUE}) :
             LET res == Apply(m, deck, r)
             IN  /\ deck' = res.deck
                 /\ fault' = res.fault
                 /\ lastOp' = "mutation"
                 /\ steps' = steps + 1
                 /\ UNCHANGED <<mate, child>>
                 /\ UNCHANGED deckOthers

DoBuildAnt ==
    /\ CanStep
    /\ \E r \in Streams : Becomes(BuildDeckConstructively(r), "aco")

\* A crossover's child becomes the deck; a panic leaves the deck as it was.
Bred(res, op) ==
    /\ child' = res.child
    /\ fault' = res.fault
    /\ deck' = IF res.fault = NoFault THEN res.child ELSE deck
    /\ lastOp' = op
    /\ steps' = steps + 1
    /\ UNCHANGED mate
    /\ UNCHANGED deckOthers

DoCrossover ==
    /\ CanStep
    /\ \E point1, point2 \in RandRange(0, 52) :
          Bred(Crossover(deck, mate, point1, point2), "crossover")

DoUniformCrossover ==
    /\ CanStep
    /\ \E r \in Streams : Bred(UniformCrossover(deck, mate, r), "uniform_crossover")

Next ==
    \/ DoShuffle
    \/ DoCut
    \/ DoSwap
    \/ DoMutate
    \/ DoBuildAnt
    \/ DoCrossover
    \/ DoUniformCrossover

Spec == DeckInit /\ [][Next]_vars

\* C1: every deck reached from new_deck_order() by shuffle, cut, swap and
\* generated mutations, and every deck built by the ACO constructor, has 52
\* cards and holds each card 0..51 exactly once.
C1_DeckIsPermutation ==
    (lastOp \in DeckOps /\ fault = NoFault) => IsPermutation(deck)

\* A block swap has been applied to a cut, shuffled or rebuilt deck.
C1_Witness ==
    /\ lastOp = "mutation"
    /\ steps = 2
    /\ deck # NewDeckOrder
    /\ IsPermutation(deck)

\* C2: both crossovers return a permutation of 0..51 and never fault: the
\* scan of parent2 does not run off its end while a slot is empty, and no
\* slot is left empty.
C2_CrossoverIsPermutation ==
    lastOp \in CrossOps =>
        /\ fault = NoFault
        /\ \A s \in 1..Len(child) : child[s] # None
        /\ IsPermutation(deck)

\* A two-point crossover with a non-empty segment has produced a child that
\* is neither parent.
C2_Witness ==
    /\ lastOp = "crossover"
    /\ fault = NoFault
    /\ deck = child
    /\ deck # mate
    /\ \E s \in 1..DECK_SIZE : deck[s] # mate[s] /\ deck[s] # NewDeckOrder[s]

-----------------------------------------------------------------------------
(* The deal oracle as a state machine: a deck is cut and a round is dealt   *)
(* from it and scored (dealer_wins_game), or a Game is built by hand as the *)
(* tests of game.rs do.                                                     *)

MaxPlayers == 4

PlayerCounts == 2..MaxPlayers

CutRange == 0..51

GameDecks == {NewDeckOrder} \cup {Shuffle(NewDeckOrder, r) : r \in Streams}

\* test_player1_wins_with_straight: community 4c 3d 7s 5c Js, player 0 holds
\* 8h 7d, player 1 holds Kh 6d (clubs 0, spades 1, hearts 2, diamonds 3).
TestGameStraight ==
    [players |-> << <<CardNew(8, 2), CardNew(7, 3)>>, <<CardNew(13, 2), CardNew(6, 3)>> >>,
     common  |-> <<CardNew(4, 0), CardNew(3, 3), CardNew(7, 1), CardNew(5, 0), CardNew(11, 1)>>]

\* test_player1_wins_with_ace_high: community 7h 5c 10c 8c 8h, player 0 holds
\* Qd 4s, player 1 holds Ac 3d.
TestGameAceHigh ==
    [players |-> << <<CardNew(12, 3), CardNew(4, 1)>>, <<CardNew(1, 0), CardNew(3, 3)>> >>,
     common  |-> <<CardNew(7, 2), CardNew(5, 0), CardNew(10, 0), CardNew(8, 0), CardNew(8, 2)>>]

TestGames == {TestGameStraight, TestGameAceHigh}

GameInit ==
    /\ deck \in GameDecks
    /\ mate = <<>>
    /\ child = <<>>
    /\ fault = NoFault
    /\ lastOp = "shuffle"
    /\ steps = 0
    /\ ScoreIdle
    /\ GameIdle
    /\ FitIdle
    /\ SearchIdle

Scored(g) ==
    /\ game' = g
    /\ scores' = AllScores(g)
    /\ winner' = (IF g = NoGame THEN -1 ELSE WinningPlayer(AllScores(g)))
    /\ dealerWins' = (IF g = NoGame THEN FALSE ELSE DealerWins(AllScores(g)))

\* dealer_wins_game(num_players, deck.clone().cut(cut_pos), table)
DealAndScore ==
    /\ origin = "none"
    /\ \E numPlayers \in PlayerCounts, pos \in CutRange :
          LET round == DealARound(numPlayers, Cut(deck, pos))
          IN  /\ np' = numPlayers
              /\ dealt' = Cut(deck, pos)
              /\ pile' = round.pile
              /\ burns' = round.burns
              /\ fault' = round.fault
              /\ Scored(round.game)
    /\ origin' = "deal"
    /\ UNCHANGED <<deck, mate, child, lastOp, steps>>
    /\ UNCHANGED <<scoreVars, fitVars, searchVars>>

\* The tests of game.rs: a Game built from chosen cards, then scored.
ScoreTestGame ==
    /\ origin = "none"
    /\ \E g \in TestGames :
          /\ np' = Len(g.players)
          /\ Scored(g)
    /\ origin' = "test"
    /\ UNCHANGED <<dealt, pile, burns>>
    /\ UNCHANGED gameOthers

GameNext == DealAndScore \/ ScoreTestGame

SpecGame == GameInit /\ [][GameNext]_vars

\* The lexicographic order of the claims on (rank, high).
LexLess(a, b) == a.rank < b.rank \/ (a.rank = b.rank /\ a.hi < b.hi)

RoundScored == origin # "none" /\ fault = NoFault

\* The seats whose score no other seat beats.
BestSeats == {p \in 1..np : \A q \in 1..np : ~LexLess(scores[p], scores[q])}

\* C3: dealer_wins is true exactly when player 0's score is strictly greater,
\* lexicographically on (rank, high), than every other player's; a cut where an
\* opponent equals the dealer is not a dealer win.
C3_DealerWinsStrictly ==
    RoundScored =>
        (dealerWins <=> \A p \in 2..np : LexLess(scores[p], scores[1]))

\* A dealt round in which the dealer shares the best score with an opponent
\* and is not the winner.
C3_Witness ==
    /\ origin = "deal"
    /\ 1 \in BestSeats
    /\ Cardinality(BestSeats) >= 2
    /\ ~dealerWins

C5_DealOrder ==
    (origin = "deal" /\ fault = NoFault) =>
        LET n     == Len(dealt)
            nth(k) == dealt[n + 1 - k]
        IN  /\ \A p \in 1..np : game.players[p] = <<nth(p), nth(np + p)>>
            /\ burns = <<nth(2 * np + 1), nth(2 * np + 5), nth(2 * np + 7)>>
            /\ game.common = <<nth(2 * np + 2), nth(2 * np + 3), nth(2 * np + 4),
                               nth(2 * np + 6), nth(2 * np + 8)>>
            /\ Len(pile) = n - (2 * np + 8)
            /\ pile = SubSeq(dealt, 1, n - (2 * np + 8))
            /\ np = 4 => Len(pile) = 36
            /\ Range(burns) \cap (Range(game.common) \cup
                   UNION {Range(game.players[p]) : p \in 1..np}) = {}

\* Four players dealt from a deck that was cut: 16 cards gone, 36 left.
C5_Witness ==
    /\ origin = "deal"
    /\ np = 4
    /\ dealt # deck
    /\ Len(pile) = 36
    /\ Len(burns) = 3

SevenCards(p) == game.players[p] \o game.common

FiveSubsets(S) == {T \in SUBSET S : Cardinality(T) = 5}

\* C6: players_score is the largest (rank, high) over the 21 five-card subsets
\* of the player's 7 cards: its 10 + 10 + 1 hands are exactly those subsets,
\* and it agrees with Hand::score on the sorted 7-card hand.
C6_PlayersScoreIsBestOfSeven ==
    RoundScored =>
        \A p \in 1..np :
            LET hands == PlayerHands(game, p - 1)
                best  == HandScore(SortAsc(SevenCards(p)))
            IN  /\ Len(hands) = 21
                /\ {Range(hands[t]) : t \in 1..Len(hands)} = FiveSubsets(Range(SevenCards(p)))
                /\ scores[p].rank = best.rank
                /\ scores[p].hi = best.hi
                /\ \A T \in FiveSubsets(Range(SevenCards(p))) :
                      \E t \in 1..Len(hands) :
                          /\ Range(hands[t]) = T
                          /\ ~LexLess(scores[p], ScoreFiveCards(hands[t]))

\* A dealt round where some player's best hand is the five community cards:
\* every hand that uses a hole card scores strictly less.
C6_Witness ==
    /\ origin = "deal"
    /\ \E p \in 1..np :
          \A t \in 1..20 :
              LexLess(ScoreFiveCards(PlayerHands(game, p - 1)[t]), scores[p])

\* C8 as claimed: in the straight test the player holding 8h 7d scores (2, 7),
\* the player holding Kh 6d scores (5, 7) and is the winning player.
C8_TestScoresAsClaimed ==
    (origin = "test" /\ game = TestGameStraight) =>
        /\ scores[1] = [rank |-> 2, hi |-> 7]
        /\ scores[2] = [rank |-> 5, hi |-> 7]
        /\ winner = 1
        /\ ~dealerWins

\* C8 as amended: the player holding 8h 7d scores (2, 11) (the pair of sevens
\* with the jack of the board as high card), the player holding Kh 6d scores
\* (5, 7) and is the winning player; the dealer does not win.
C8_TestScores ==
    (origin = "test" /\ game = TestGameStraight) =>
        /\ scores[1] = [rank |-> 2, hi |-> 11]
        /\ scores[2] = [rank |-> 5, hi |-> 7]
        /\ winner = 1
        /\ ~dealerWins

\* The straight test has been built and scored.
C8_Witness ==
    /\ origin = "test"
    /\ game = TestGameStraight
    /\ Len(scores) = 2
    /\ winner = 1

-----------------------------------------------------------------------------
(* The fitness functions as a state machine: num_wins and then hybrid_score *)
(* are run on two decks with the same num_players and the same `real`, one  *)
(* cut position per step.                                                   *)

\* The pairs of decks evaluated: deck orders the search starts from.
ShuffledDecks == {Shuffle(NewDeckOrder, r) : r \in Streams}

FitnessPairs == {<<NewDeckOrder, d>> : d \in ShuffledDecks \ {NewDeckOrder}}

FitInit ==
    /\ \E pair \in FitnessPairs : deck = pair[1] /\ mate = pair[2]
    /\ child = <<>>
    /\ fault = NoFault
    /\ lastOp = "shuffle"
    /\ steps = 0
    /\ ScoreIdle
    /\ np \in PlayerCounts
    /\ dealt = <<>>
    /\ game = NoGame
    /\ pile = <<>>
    /\ burns = <<>>
    /\ scores = <<>>
    /\ winner = -1
    /\ dealerWins = FALSE
    /\ origin = "none"
    /\ real \in BOOLEAN
    /\ pc = "num_wins"
    /\ cutPos = CutFirst(real)
    /\ numWins = <<0, 0>>
    /\ wonCuts = <<{}, {}>>
    /\ hybWins = <<0, 0>>
    /\ totalMargin = <<0, 0>>
    /\ hybrid = <<0, 0>>
    /\ SearchIdle

Evaluated == <<deck, mate>>

\* One element of num_wins' filter-and-count, on both decks; after the last
\* one hybrid_score starts.
NumWinsStep ==
    /\ pc = "num_wins"
    /\ cutPos < CutEnd(real)
    /\ \E won \in {[i \in 1..2 |-> DealerWinsGame(np, Cut(Evaluated[i], cutPos))]} :
           /\ numWins' = [i \in 1..2 |-> IF won[i] THEN numWins[i] + 1 ELSE numWins[i]]
           /\ wonCuts' = [i \in 1..2 |-> IF won[i] THEN wonCuts[i] \cup {cutPos}
                                                   ELSE wonCuts[i]]
    /\ IF cutPos + 1 < CutEnd(real)
       THEN pc' = pc /\ cutPos' = cutPos + 1
       ELSE pc' = "hybrid_score" /\ cutPos' = CutFirst(real)
    /\ UNCHANGED <<real, hybWins, totalMargin, hybrid>>
    /\ UNCHANGED <<deckVars, scoreVars, gameVars, searchVars>>

\* One iteration of hybrid_score's loop, on both decks; the last one returns.
HybridStep ==
    /\ pc = "hybrid_score"
    /\ cutPos < CutEnd(real)
    /\ \E margin \in {[i \in 1..2 |-> PositionMargin(np, Evaluated[i], cutPos)]} :
       LET wins   == [i \in 1..2 |-> IF margin[i] > 0 THEN hybWins[i] + 1 ELSE hybWins[i]]
           total  == [i \in 1..2 |-> totalMargin[i] + margin[i]]
       IN  /\ hybWins' = wins
           /\ totalMargin' = total
           /\ IF cutPos + 1 < CutEnd(real)
              THEN pc' = pc /\ hybrid' = hybrid
              ELSE pc' = "done" /\ hybrid' = [i \in 1..2 |-> HybridValue(wins[i], total[i])]
    /\ cutPos' = cutPos + 1
    /\ UNCHANGED <<real, numWins, wonCuts>>
    /\ UNCHANGED <<deckVars, scoreVars, gameVars, searchVars>>

FitNext == NumWinsStep \/ HybridStep

SpecFitness == FitInit /\ [][FitNext]_vars

\* The cut range of the claims.
ClaimedCuts == IF real THEN 5..46 ELSE 0..51

\* The dealer's score beats every opponent's in the round dealt from d cut at k.
DealerBeatsAll(d, k) ==
    LET sc == AllScores(DealARound(np, Cut(d, k)).game)
    IN  \A p \in 2..np : LexLess(sc[p], sc[1])

\* The cuts num_wins has evaluated so far.
CutsCounted ==
    IF pc = "num_wins" THEN {k \in ClaimedCuts : k < cutPos} ELSE ClaimedCuts

\* C9: num_wins counts exactly the cut positions of S (0..51, or 5..46 when
\* realistic) at which the dealer wins the round dealt from the cut deck, so
\* it is at most max_wins = |S| (52 or 42), and hybrid_score counts the same
\* number of wins (margin > 0) for the same arguments.
C9_NumWinsCountsCuts ==
    pc # "idle" =>
        \A i \in 1..2 :
            /\ numWins[i] = Cardinality(wonCuts[i])
            /\ wonCuts[i] \subseteq CutsCounted
            /\ numWins[i] <= MaxWins(real)
            /\ MaxWins(real) = Cardinality(ClaimedCuts)
            /\ (pc = "num_wins" /\ cutPos > CutFirst(real)) =>
                   (cutPos - 1 \in wonCuts[i] <=> DealerBeatsAll(Evaluated[i], cutPos - 1))
            /\ (pc = "hybrid_score" /\ cutPos = CutFirst(real)) =>
                   (CutEnd(real) - 1 \in wonCuts[i]
                       <=> DealerBeatsAll(Evaluated[i], CutEnd(real) - 1))
            /\ pc = "hybrid_score" =>
                   hybWins[i] = Cardinality({k \in wonCuts[i] : k < cutPos})
            /\ pc = "done" => (cutPos - 1 = MaxOf(ClaimedCuts) /\ hybWins[i] = numWins[i])

\* Both functions have returned over the realistic range, with different
\* numbers of wins for the two decks.
C9_Witness ==
    /\ pc = "done"
    /\ real
    /\ numWins[2] > 0
    /\ numWins[1] # numWins[2]
    /\ hybWins = numWins

\* The projection of the claims.
Proj(e) == e.rank * 16 + e.hi

\* The margin of the claims at cut k of deck d.
ClaimedMargin(d, k) ==
    LET sc == AllScores(DealARound(np, Cut(d, k)).game)
    IN  Proj(sc[1]) - MaxOf({Proj(sc[p]) : p \in 2..np})

\* C10: hybrid_score = wins * 100000 + the sum over the evaluated cuts of
\* margin, margin = proj(dealer) - max over the opponents of proj, proj =
\* rank * 16 + high; of two decks evaluated with the same N and cut range the
\* one with strictly more wins has the strictly greater hybrid score.
C10_HybridScore ==
    /\ [][pc = "hybrid_score" =>
             \A i \in 1..2 :
                 /\ totalMargin'[i] = totalMargin[i] + ClaimedMargin(Evaluated[i], cutPos)
                 /\ hybWins'[i] = hybWins[i]
                        + (IF ClaimedMargin(Evaluated[i], cutPos) > 0 THEN 1 ELSE 0)]_vars
    /\ [](pc = "num_wins" => totalMargin = <<0, 0>> /\ hybWins = <<0, 0>>)
    /\ [](pc = "done" =>
             /\ \A i \in 1..2 : hybrid[i] = hybWins[i] * 100000 + totalMargin[i]
             /\ \A i, j \in 1..2 : hybWins[i] > hybWins[j] => hybrid[i] > hybrid[j])

\* Two decks evaluated: one has more wins but the smaller sum of margins, and
\* the greater hybrid score.
C10_Witness ==
    /\ pc = "done"
    /\ \E i, j \in 1..2 :
          /\ hybWins[i] > hybWins[j]
          /\ totalMargin[i] < totalMargin[j]
          /\ hybrid[i] > hybrid[j]

-----------------------------------------------------------------------------
(* search.rs.  The strategies score decks through num_wins and hybrid_score *)
(* and keep (deck, score) pairs.  Here the decks come from a small family   *)
(* of real decks, and the table's verdict on each of them (its win count    *)
(* and its total margin) is an arbitrary function fixed for the run: the    *)
(* strategies read it, they never look inside it.                           *)

REAL == FALSE

Family ==
    <<NewDeckOrder, Swap(NewDeckOrder, 0, 1), Cut(NewDeckOrder, 17), Cut(NewDeckOrder, 35)>>

DeckIds == 1..Len(Family)

\* The win counts num_wins can report, among them max_wins(REAL).
WinLevels == {MaxWins(REAL) - 2, MaxWins(REAL) - 1, MaxWins(REAL)}

\* The least and the largest total margin of a deck with w winning cuts: a
\* margin is a difference of two projections of [17, 158], positive exactly on
\* the winning cuts.
MarginMin(w) == w - 141 * (MaxWins(REAL) - w)

MarginMax(w) == 141 * w

\* num_wins(num_players, deck, table, REAL) and hybrid_score(...) of a deck of
\* Family: hybrid_score counts the wins num_wins counts.
NumWinsOf(d) == winsOf[d]

HybridScoreOf(d) == HybridValue(winsOf[d], marginOf[d])

OracleInit ==
    /\ winsOf \in [DeckIds -> WinLevels]
    /\ \E high \in [DeckIds -> BOOLEAN] :
          marginOf = [d \in DeckIds |-> IF high[d] THEN MarginMax(winsOf[d])
                                                  ELSE MarginMin(winsOf[d])]

-----------------------------------------------------------------------------
(* local_search_sa                                                          *)

MaxIterations == 3

\* A variant that takes every accepted deck as the new best.
ImprovesBestAlways(score, best) == TRUE

\* "if current_score > best_score"
ImprovesBest(score, best) == score > best

\* The state after the initialisation of local_search_sa; with a budget of 0
\* the loop is skipped and (best_deck, best_wins) is returned at once.
SaInit ==
    /\ DeckIdle /\ ScoreIdle /\ GameIdle /\ FitIdle /\ GaIdle /\ AuxIdle
    /\ OracleInit
    /\ saStart \in DeckIds
    /\ saBudget \in 0..MaxIterations
    /\ saCurrent = saStart
    /\ saCurrentScore = HybridScoreOf(saStart)
    /\ saBest = saStart
    /\ saBestScore = HybridScoreOf(saStart)
    /\ saBestWins = NumWinsOf(saStart)
    /\ saIter = 0
    /\ saPc = (IF saBudget = 0 THEN "returned" ELSE "loop")

\* One iteration of the loop.  newDeck is mutation.apply(current_deck); a deck
\* that does not improve on current_score is accepted or not as rand_float
\* falls under exp(delta / temperature) or not.
SaIterate ==
    /\ saPc = "loop"
    /\ saIter < saBudget
    /\ \E newDeck \in DeckIds, draw \in BOOLEAN :
          LET newScore == HybridScoreOf(newDeck)
              accept   == newScore > saCurrentScore \/ draw
              improves == accept /\ ImprovesBest(newScore, saBestScore)
              perfect  == improves /\ NumWinsOf(newDeck) = MaxWins(REAL)
          IN  /\ saCurrent' = (IF accept THEN newDeck ELSE saCurrent)
              /\ saCurrentScore' = (IF accept THEN newScore ELSE saCurrentScore)
              /\ saBest' = (IF improves THEN newDeck ELSE saBest)
              /\ saBestScore' = (IF improves THEN newScore ELSE saBestScore)
              /\ saBestWins' = (IF improves THEN NumWinsOf(newDeck) ELSE saBestWins)
              /\ saPc' = (IF perfect \/ saIter + 1 = saBudget THEN "returned" ELSE "loop")
    /\ saIter' = saIter + 1
    /\ UNCHANGED <<saStart, saBudget, oracleVars, gaVars, auxVars>>
    /\ UNCHANGED <<deckVars, scoreVars, gameVars, fitVars>>

SaNext == SaIterate

SpecSA == SaInit /\ [][SaNext]_vars

\* C11: the win count local_search_sa returns is at least num_wins of its
\* starting deck, whatever the budget, the mutations and the acceptance draws;
\* the count returned is the win count of the deck returned.
C11_LocalSearchMonotone ==
    saPc # "idle" =>
        /\ saBestWins >= winsOf[saStart]
        /\ saPc = "returned" => winsOf[saBest] = saBestWins

\* A run that improved on its start, then accepted a deck with fewer wins as
\* current deck, and returned the better one.
C11_Witness ==
    /\ saPc = "returned"
    /\ saIter >= 2
    /\ saBestWins > winsOf[saStart]
    /\ winsOf[saCurrent] < saBestWins
    /\ saCurrent # saBest

-----------------------------------------------------------------------------
(* genetic_search, called by run_search.  The sizes of the search are       *)
(* scaled down; the loop body is one step.                                  *)

POP_SIZE == 2

ELITE_SIZE == 1

NUM_CROSSOVERS == 1

NUM_MUTATIONS == 1

STAGNATION_THRESHOLD == 2

MAX_GENERATIONS == 4

\* hamming_distance
HammingDistance(d1, d2) ==
    Cardinality({i \in 1..DECK_SIZE : Family[d1][i] # Family[d2][i]})

\* hamming_distance of every two decks of Family
Distances == [d1 \in DeckIds |-> [d2 \in DeckIds |-> HammingDistance(d1, d2)]]

\* calculate_diversity times population.len(): the sum of the distances
RECURSIVE TotalDistanceFrom(_, _, _)
TotalDistanceFrom(d, population, k) ==
    IF k > Len(population) THEN 0
    ELSE Distances[d][population[k].deck] + TotalDistanceFrom(d, population, k + 1)

TotalDistance(d, population) == TotalDistanceFrom(d, population, 1)

\* diversity_fitness(score, calculate_diversity(deck, population), weight),
\* times 10 * population.len(); tenths is the weight in tenths.
AdjustedFitness(ind, population, tenths) ==
    10 * Len(population) * ind.score + tenths * TotalDistance(ind.deck, population)

\* A stable sort of the positions 1..Len(keys) by descending key, as
\* sort_by(|a, b| b.partial_cmp(a)) leaves them: equal keys keep their order.
RECURSIVE OrderDescFrom(_, _, _)
OrderDescFrom(keys0, k, order0) ==
  Only({
    IF k > Len(keys) THEN order
    ELSE LET p == Cardinality({q \in 1..Len(order) : keys[order[q]] >= keys[k]})
         IN  OrderDescFrom(keys, k + 1,
                 SubSeq(order, 1, p) \o <<k>> \o SubSeq(order, p + 1, Len(order)))
    : keys \in {keys0}, order \in {order0}})

\* A stable sort by ascending key (sort_by_key).
RECURSIVE OrderAscFrom(_, _, _)
OrderAscFrom(keys0, k, order0) ==
  Only({
    IF k > Len(keys) THEN order
    ELSE LET p == Cardinality({q \in 1..Len(order) : keys[order[q]] <= keys[k]})
         IN  OrderAscFrom(keys, k + 1,
                 SubSeq(order, 1, p) \o <<k>> \o SubSeq(order, p + 1, Len(order)))
    : keys \in {keys0}, order \in {order0}})

Permuted(items0, order0) ==
    Only({[k \in 1..Len(items) |-> items[order[k]]] : items \in {items0}, order \in {order0}})

\* "diversity_scored.sort_by(|a, b| b.2.partial_cmp(&a.2).unwrap())"
SortByDiversity(gen0, tenths) ==
    Only({Permuted(gen, OrderDescFrom([k \in 1..Len(gen) |-> AdjustedFitness(gen[k], gen, tenths)],
                                      1, <<>>)) : gen \in {gen0}})

\* A variant of the sort that orders the scores and leaves the decks in place.
SortScoresOnly(gen0) ==
    Only({[k \in 1..Len(gen) |->
              [deck  |-> gen[k].deck,
               score |-> Reverse(Permuted(gen, OrderAscFrom([j \in 1..Len(gen) |-> gen[j].score],
                                                             1, <<>>)))[k].score]]
          : gen \in {gen0}})

\* "new_generation.sort_by_key(|(_, score)| *score); new_generation.reverse()"
SortByScore(gen0) ==
    Only({Reverse(Permuted(gen, OrderAscFrom([k \in 1..Len(gen) |-> gen[k].score], 1, <<>>)))
          : gen \in {gen0}})

ScoredDeck(d) == [deck |-> d, score |-> NumWinsOf(d)]

MaxScore(population) == MaxOf({population[k].score : k \in 1..Len(population)})

Truncate(v, n) == SubSeq(v, 1, Min2(n, Len(v)))

\* The children of one generation: each of the NUM_CROSSOVERS rounds gives a
\* crossover child unless it selected the same parent twice (0 here), each of
\* the NUM_MUTATIONS rounds gives the deck local_search_sa returns.
Broods ==
    {cross \o refined : cross \in UNION {[1..n -> DeckIds] : n \in 0..NUM_CROSSOVERS},
                        refined \in [1..NUM_MUTATIONS -> DeckIds]}

\* The state when the loop of genetic_search is entered: POP_SIZE decks,
\* scored in the order they were shuffled.
GaInit ==
    /\ DeckIdle /\ ScoreIdle /\ GameIdle /\ FitIdle /\ SaIdle /\ AuxIdle
    /\ winsOf \in [DeckIds -> WinLevels]
    /\ marginOf = [d \in DeckIds |-> 0]
    /\ \E decks \in [1..POP_SIZE -> DeckIds] :
          gaPop = [k \in 1..POP_SIZE |-> ScoredDeck(decks[k])]
    /\ gaGeneration = 0
    /\ gaBestScore = MaxScore(gaPop)
    /\ gaStale = 0
    /\ gaNewGeneration = <<>>
    /\ gaMaxScored = MaxScore(gaPop)
    /\ gaPc = "loop"
    /\ gaResult = 0
    /\ printed = 0

\* The generation cap: "return scored_population[0].0.clone()", which
\* run_search prints.
GaCap ==
    /\ gaPc = "loop"
    /\ gaGeneration + 1 > MAX_GENERATIONS
    /\ gaGeneration' = gaGeneration + 1
    /\ gaPc' = "returned"
    /\ gaResult' = gaPop[1].deck
    /\ printed' = gaPop[1].deck
    /\ UNCHANGED <<gaPop, gaBestScore, gaStale, gaNewGeneration, gaMaxScored>>
    /\ UNCHANGED <<oracleVars, saVars, auxVars>>
    /\ UNCHANGED <<deckVars, scoreVars, gameVars, fitVars>>

\* One generation: elites, children, the rest of the population, the sort, the
\* progress counters, the return on a perfect first individual, the truncation.
GaGeneration ==
    /\ gaPc = "loop"
    /\ gaGeneration + 1 <= MAX_GENERATIONS
    /\ gaGeneration' = gaGeneration + 1
    /\ \E brood \in Broods :
          LET tenths   == IF gaStale > STAGNATION_THRESHOLD THEN 5 ELSE 1
              elites   == SubSeq(gaPop, 1, Min2(ELITE_SIZE, Len(gaPop)))
              children == [k \in 1..Len(brood) |-> ScoredDeck(brood[k])]
              rest     == SubSeq(gaPop, ELITE_SIZE + 1, Len(gaPop))
              grown    == elites \o children \o rest
              bySort   == IF gaStale > STAGNATION_THRESHOLD \div 2
                          THEN SortByDiversity(grown, tenths)
                          ELSE SortByScore(grown)
          IN  \E sorted \in {bySort} :
              LET currentBest == sorted[1].score IN
              /\ gaNewGeneration' = sorted
              /\ gaMaxScored' = Max2(gaMaxScored, MaxScore(sorted))
              /\ gaBestScore' = Max2(gaBestScore, currentBest)
              /\ gaStale' = (IF currentBest > gaBestScore THEN 0 ELSE gaStale + 1)
              /\ IF currentBest = MaxWins(REAL)
                 THEN /\ gaPc' = "returned"
                      /\ gaResult' = sorted[1].deck
                      /\ printed' = sorted[1].deck
                      /\ gaPop' = gaPop
                 ELSE /\ gaPc' = "loop"
                      /\ gaResult' = 0
                      /\ printed' = 0
                      /\ gaPop' = Truncate(sorted, POP_SIZE)
    /\ UNCHANGED <<oracleVars, saVars, auxVars>>
    /\ UNCHANGED <<deckVars, scoreVars, gameVars, fitVars>>

GaNext == GaGeneration \/ GaCap

SpecGA == GaInit /\ [][GaNext]_vars

\* C12: the highest win count among the individuals kept for the next
\* generation (elites, children and survivors combined, sorted and truncated
\* to POP_SIZE) is at least the highest win count of the current generation,
\* also when the sort is by diversity-adjusted fitness.
C12_BestNeverDrops ==
    [][(gaPc = "loop" /\ gaPc' = "loop") => MaxScore(gaPop') >= MaxScore(gaPop)]_vars

\* C13: once a generation has produced and scored a deck with wins = max_wins,
\* genetic_search returns a deck with wins = max_wins at the end of that
\* generation and starts no other.
C13_StopsOnPerfectDeck ==
    (\E k \in 1..Len(gaNewGeneration) : gaNewGeneration[k].score = MaxWins(REAL)) =>
        (gaPc = "returned" /\ winsOf[gaResult] = MaxWins(REAL))

\* C14: whenever the search command returns and prints a deck, the deck has
\* num_wins = max_wins.
C14_PrintsOnlyPerfectDecks ==
    printed # 0 => winsOf[printed] = MaxWins(REAL)

\* C15: when genetic_search reaches its generation cap and no deck with
\* wins = max_wins was found, the deck it returns is the best seen: its
\* num_wins is the highest score of any individual scored during the run, the
\* value reported as the best found.
C15_CapReturnsBestSeen ==
    (gaPc = "returned" /\ gaGeneration > MAX_GENERATIONS
                       /\ gaMaxScored < MaxWins(REAL)) =>
        /\ winsOf[gaResult] = gaMaxScored
        /\ gaBestScore = gaMaxScored

\* ---------------------------------------------------------------------------
\* simulated_annealing (search.rs 1182-1357): NUM_THREADS workers race; one
\* relay thread per worker joins it and sends its deck; the main thread takes
\* the first message.

\* "const NUM_THREADS: usize = 10", scaled down.
NUM_THREADS == 2

Workers == 1..NUM_THREADS

\* The win counts the decks of a race may have: max_wins or one less.
RaceLevels == {MaxWins(REAL) - 1, MaxWins(REAL)}

\* The decks the workers of a race shuffle and mutate into: new_deck_order()
\* and two other decks of Family.
RaceDecks == {1, 2, 3}

\* "(thread_id, deck)"
Message(w, d) == [id |-> w, deck |-> d]

\* A variant of the receive that takes the newest message of the channel.
RecvNewest(queue) == queue[Len(queue)]

\* "rx.recv()" on a channel that holds a message: the oldest one.
Recv(queue) == Head(queue)

\* The workers are spawned first, each from a shuffled deck ("best_deck",
\* then "current_deck = best_deck.clone()" at the first restart); the channel
\* exists with its one sender tx and no relay thread is spawned yet.
RaceInit ==
    /\ DeckIdle /\ ScoreIdle /\ GameIdle /\ FitIdle /\ SaIdle /\ GaIdle
    /\ CutIdle /\ DealIdle /\ TableIdle /\ LateIdle
    /\ \E wins \in [RaceDecks -> RaceLevels] :
          winsOf = [d \in DeckIds |-> IF d \in RaceDecks THEN wins[d]
                                     ELSE MaxWins(REAL) - 1]
    /\ marginOf = [d \in DeckIds |-> 0]
    /\ wPc = [w \in Workers |-> "running"]
    /\ wBest \in [Workers -> RaceDecks]
    /\ wCurrent = wBest
    /\ relayPc = [w \in Workers |-> "unborn"]
    /\ senders = 1
    /\ channel = <<>>
    /\ sentLog = <<>>
    /\ consumed = <<>>
    /\ mainPc = "spawn"
    /\ raceResult = 0
    /\ returnCount = 0

raceOthers == <<deckVars, scoreVars, gameVars, fitVars, oracleVars, saVars, gaVars,
                cutVars, dealVars, tableVars, lateVars>>

\* One iteration of the inner loop of simulated_annealing_worker: newDeck is
\* mutation.apply(current_deck); a deck that is no better is accepted or not as
\* rand_float falls under exp(delta / temperature) or not; only a new best
\* with max_wins makes the worker return.
WorkerIterate(w) ==
    /\ wPc[w] = "running"
    /\ \E newDeck \in RaceDecks, lucky \in BOOLEAN :
          LET accept == IF NumWinsOf(newDeck) > NumWinsOf(wCurrent[w]) THEN TRUE ELSE lucky
              better == accept /\ NumWinsOf(newDeck) > NumWinsOf(wBest[w])
          IN  /\ wCurrent' = [wCurrent EXCEPT ![w] = IF accept THEN newDeck ELSE @]
              /\ wBest' = [wBest EXCEPT ![w] = IF better THEN newDeck ELSE @]
              /\ wPc' = [wPc EXCEPT ![w] =
                            IF better /\ NumWinsOf(newDeck) = MaxWins(REAL)
                            THEN "returned" ELSE @]
    /\ UNCHANGED <<relayPc, senders, channel, sentLog, consumed, mainPc, raceResult,
                   returnCount>>
    /\ UNCHANGED raceOthers

\* The head of the outer loop after a restart: current_deck is a fresh shuffle;
\* best_deck is left alone.
WorkerRestart(w) ==
    /\ wPc[w] = "running"
    /\ \E fresh \in RaceDecks : wCurrent' = [wCurrent EXCEPT ![w] = fresh]
    /\ UNCHANGED <<wPc, wBest, relayPc, senders, channel, sentLog, consumed, mainPc,
                   raceResult, returnCount>>
    /\ UNCHANGED raceOthers

\* num_wins panics in the worker (an unwrap in draw or in ScoreTable::score);
\* the unwinding drops the worker's decks.
WorkerPanic(w) ==
    /\ wPc[w] = "running"
    /\ wPc' = [wPc EXCEPT ![w] = "panicked"]
    /\ wCurrent' = [wCurrent EXCEPT ![w] = 0]
    /\ wBest' = [wBest EXCEPT ![w] = 0]
    /\ UNCHANGED <<relayPc, senders, channel, sentLog, consumed, mainPc,
                   raceResult, returnCount>>
    /\ UNCHANGED raceOthers

\* The main thread spawns the relay thread of the next worker with a clone of tx.
MainSpawnRelay ==
    /\ mainPc = "spawn"
    /\ \E w \in Workers :
          /\ relayPc[w] = "unborn"
          /\ \A v \in Workers : v < w => relayPc[v] # "unborn"
          /\ relayPc' = [relayPc EXCEPT ![w] = "joining"]
          /\ mainPc' = (IF w = NUM_THREADS THEN "drop" ELSE "spawn")
    /\ senders' = senders + 1
    /\ UNCHANGED <<wPc, wCurrent, wBest, channel, sentLog, consumed, raceResult, returnCount>>
    /\ UNCHANGED raceOthers

\* "drop(tx)"
MainDropTx ==
    /\ mainPc = "drop"
    /\ senders' = senders - 1
    /\ mainPc' = "recv"
    /\ UNCHANGED <<wPc, wCurrent, wBest, relayPc, channel, sentLog, consumed, raceResult,
                   returnCount>>
    /\ UNCHANGED raceOthers

\* A variant of the relay thread that keeps its sender when the worker has
\* panicked.
RelayJoinKeepsSender(w) ==
    /\ relayPc[w] = "joining"
    /\ wPc[w] # "running"
    /\ relayPc' = [relayPc EXCEPT ![w] = "done"]
    /\ IF wPc[w] = "returned"
       THEN /\ channel' = Append(channel, Message(w, wBest[w]))
            /\ sentLog' = Append(sentLog, Message(w, wBest[w]))
            /\ senders' = senders - 1
       ELSE UNCHANGED <<channel, sentLog, senders>>
    /\ UNCHANGED <<wPc, wCurrent, wBest, consumed, mainPc, raceResult, returnCount>>
    /\ UNCHANGED raceOthers

\* A relay thread whose worker has ended: handle.join() gives Ok(deck), which
\* is sent, or Err, which is reported; the thread ends and drops its sender.
RelayJoin(w) ==
    /\ relayPc[w] = "joining"
    /\ wPc[w] # "running"
    /\ relayPc' = [relayPc EXCEPT ![w] = "done"]
    /\ senders' = senders - 1
    /\ IF wPc[w] = "returned"
       THEN /\ channel' = Append(channel, Message(w, wBest[w]))
            /\ sentLog' = Append(sentLog, Message(w, wBest[w]))
       ELSE UNCHANGED <<channel, sentLog>>
    /\ UNCHANGED <<wPc, wCurrent, wBest, consumed, mainPc, raceResult, returnCount>>
    /\ UNCHANGED raceOthers

\* "if let Ok((winning_thread_id, deck)) = rx.recv() { deck } else
\* { Deck::new_deck_order() }": recv blocks while the channel is empty and a
\* sender lives, and fails when it is empty and no sender is left.
MainRecv ==
    /\ mainPc = "recv"
    /\ \/ /\ channel # <<>>
          /\ consumed' = Append(consumed, Recv(channel))
          /\ channel' = SelectSeq(channel, LAMBDA msg : msg # Recv(channel))
          /\ raceResult' = Recv(channel).deck
       \/ /\ channel = <<>>
          /\ senders = 0
          /\ raceResult' = 1
          /\ UNCHANGED <<channel, consumed>>
    /\ mainPc' = "returned"
    /\ returnCount' = returnCount + 1
    /\ UNCHANGED <<wPc, wCurrent, wBest, relayPc, senders, sentLog>>
    /\ UNCHANGED raceOthers

RaceNext ==
    \/ \E w \in Workers : WorkerIterate(w)
    \/ \E w \in Workers : WorkerRestart(w)
    \/ \E w \in Workers : WorkerPanic(w)
    \/ \E w \in Workers : RelayJoin(w)
    \/ MainSpawnRelay
    \/ MainDropTx
    \/ MainRecv

SpecRace == RaceInit /\ [][RaceNext]_vars

\* What C16 says of a returned simulated_annealing, given that it has returned.
ReturnedWithFirstMessage ==
    /\ returnCount = 1
    /\ Len(consumed) = 1
    /\ consumed[1] = sentLog[1]
    /\ raceResult = consumed[1].deck
    /\ wPc[consumed[1].id] = "returned"
    /\ wBest[consumed[1].id] = raceResult
    /\ winsOf[raceResult] = MaxWins(REAL)

\* The main thread's return leaves every worker and relay thread as it was,
\* and after it no message is received any more.
MainLeavesOthersAlone ==
    /\ (mainPc = "recv" /\ mainPc' = "returned") => (wPc' = wPc /\ relayPc' = relayPc)
    /\ mainPc = "returned" =>
          /\ mainPc' = "returned" /\ raceResult' = raceResult /\ consumed' = consumed
          /\ returnCount' = returnCount
          /\ Len(channel') >= Len(channel)

CutDecks == GameDecks

\* The cut positions drain(0..pos) accepts for a deck of 52 cards.
CutArgs == 0..DECK_SIZE

CutInit ==
    /\ DeckIdle /\ ScoreIdle /\ GameIdle /\ FitIdle /\ OracleIdle /\ SaIdle /\ GaIdle
    /\ RaceIdle /\ DealIdle /\ TableIdle /\ LateIdle
    /\ cutDeck \in CutDecks
    /\ cutK = 0
    /\ cutRes = <<>>
    /\ cutBack = <<>>
    /\ cutPc = "start"

cutOthers == <<deckVars, scoreVars, gameVars, fitVars, oracleVars, saVars, gaVars,
               raceVars, dealVars, tableVars, lateVars>>

\* "let d1 = deck.clone().cut(cut_pos)"
CutOnce ==
    /\ cutPc = "start"
    /\ \E pos \in CutArgs :
          /\ cutK' = pos
          /\ cutRes' = Cut(cutDeck, pos)
    /\ cutPc' = "cut"
    /\ UNCHANGED <<cutDeck, cutBack>>
    /\ UNCHANGED cutOthers

\* "let d2 = d1.cut(52 - cut_pos)"
CutAgain ==
    /\ cutPc = "cut"
    /\ cutBack' = Cut(cutRes, DECK_SIZE - cutK)
    /\ cutPc' = "back"
    /\ UNCHANGED <<cutDeck, cutK, cutRes>>
    /\ UNCHANGED cutOthers

CutNext == CutOnce \/ CutAgain

SpecCut == CutInit /\ [][CutNext]_vars

\* C17: for a deck D of 52 cards and 0 <= k <= 52, D.cut(k) has 52 cards and
\* its card at index i is D's card at index (i + k) mod 52; D.cut(0) = D; and
\* D.cut(k).cut(52 - k) = D.
C17_CutIsRotation ==
    /\ cutPc \in {"cut", "back"} =>
          /\ Len(cutRes) = DECK_SIZE
          /\ \A i \in 0..(DECK_SIZE - 1) :
                cutRes[i + 1] = cutDeck[((i + cutK) % DECK_SIZE) + 1]
          /\ cutK = 0 => cutRes = cutDeck
    /\ cutPc = "back" => cutBack = cutDeck

\* new_deck_order() cut at 17 and then at 35 is new_deck_order() again, and
\* the deck in between is another one.
C17_Witness ==
    /\ cutPc = "back" /\ cutK = 17
    /\ cutDeck = NewDeckOrder
    /\ cutRes # NewDeckOrder /\ cutRes[1] = NewDeckOrder[18]
    /\ cutBack = NewDeckOrder

\* ---------------------------------------------------------------------------
\* deal_a_round draw by draw (game.rs 169-188, deck.rs 31-33).

\* The largest num_players dealt to.
MaxDealPlayers == 24

\* The decks dealt from: every cut of new_deck_order() and every prefix of it.
DealDecks ==
    {Cut(NewDeckOrder, k) : k \in CutRange}
        \cup {SubSeq(NewDeckOrder, 1, n) : n \in 0..DECK_SIZE}

\* "self.0.pop().unwrap()": the last card, or a panic when the deck is empty.
PopUnwrap(d) ==
    IF Len(d) = 0
    THEN [fault |-> "unwrap", card |-> -1, deck |-> d]
    ELSE [fault |-> NoFault, card |-> d[Len(d)], deck |-> SubSeq(d, 1, Len(d) - 1)]

\* A variant of deal_a_round that burns no card.
DrawKindNoBurn(n, i) ==
    IF i < 2 * n THEN "hole"
    ELSE IF i - 2 * n < 5 THEN "common" ELSE "return"

\* What deal_a_round does after i draws: two passes of hole cards, then burn,
\* three community cards, burn, one, burn, one, and the return.
DrawKind(n, i) ==
    IF i < 2 * n THEN "hole"
    ELSE IF i - 2 * n \in {0, 4, 6} THEN "burn"
    ELSE IF i - 2 * n \in {1, 2, 3, 5, 7} THEN "common"
    ELSE "return"

\* The index of `common` that the draw after i draws writes.
CommonIndex(n, i) ==
    Cardinality({j \in 0..(i - 2 * n - 1) : DrawKind(n, 2 * n + j) = "common"})

\* "vec![Player::default(); num_players]" and "Common::default()"
DealInit ==
    /\ DeckIdle /\ ScoreIdle /\ GameIdle /\ FitIdle /\ OracleIdle /\ SaIdle /\ GaIdle
    /\ RaceIdle /\ CutIdle /\ TableIdle /\ LateIdle
    /\ dealN \in 0..MaxDealPlayers
    /\ dealStart \in DealDecks
    /\ dealPile = dealStart
    /\ dealStep = 0
    /\ dealPlayers = [p \in 1..dealN |-> <<0, 0>>]
    /\ dealCommon = <<0, 0, 0, 0, 0>>
    /\ dealBurns = <<>>
    /\ dealPc = "dealing"

dealOthers == <<deckVars, scoreVars, gameVars, fitVars, oracleVars, saVars, gaVars,
                raceVars, cutVars, tableVars, lateVars>>

\* A "deck.draw()" on an empty deck: deal_a_round ends with a panic.
DealPanics ==
    /\ dealPc' = "panicked"
    /\ UNCHANGED <<dealPile, dealStep, dealPlayers, dealCommon, dealBurns>>

\* A "deck.draw()" that gave a card: the deck is left one card shorter.
DealTakes(x) ==
    /\ dealPile' = x.deck
    /\ dealStep' = dealStep + 1
    /\ UNCHANGED dealPc

\* "let card = deck.draw(); players[p].0[hand_idx] = card"
DealHole ==
    /\ dealPc = "dealing"
    /\ DrawKind(dealN, dealStep) = "hole"
    /\ LET x == PopUnwrap(dealPile)
       IN  IF x.fault # NoFault
           THEN DealPanics
           ELSE /\ DealTakes(x)
                /\ dealPlayers' = [dealPlayers EXCEPT
                       ![(dealStep % dealN) + 1][(dealStep \div dealN) + 1] = x.card]
                /\ UNCHANGED <<dealCommon, dealBurns>>
    /\ UNCHANGED <<dealN, dealStart>>
    /\ UNCHANGED dealOthers

\* "let _burn = deck.draw()"
DealBurn ==
    /\ dealPc = "dealing"
    /\ DrawKind(dealN, dealStep) = "burn"
    /\ LET x == PopUnwrap(dealPile)
       IN  IF x.fault # NoFault
           THEN DealPanics
           ELSE /\ DealTakes(x)
                /\ dealBurns' = Append(dealBurns, x.card)
                /\ UNCHANGED <<dealPlayers, dealCommon>>
    /\ UNCHANGED <<dealN, dealStart>>
    /\ UNCHANGED dealOthers

\* "common.0[k] = deck.draw()"
DealCommon ==
    /\ dealPc = "dealing"
    /\ DrawKind(dealN, dealStep) = "common"
    /\ LET x == PopUnwrap(dealPile)
       IN  IF x.fault # NoFault
           THEN DealPanics
           ELSE /\ DealTakes(x)
                /\ dealCommon' = [dealCommon EXCEPT
                       ![CommonIndex(dealN, dealStep) + 1] = x.card]
                /\ UNCHANGED <<dealPlayers, dealBurns>>
    /\ UNCHANGED <<dealN, dealStart>>
    /\ UNCHANGED dealOthers

\* "Game { players, common }"
DealReturn ==
    /\ dealPc = "dealing"
    /\ DrawKind(dealN, dealStep) = "return"
    /\ dealPc' = "returned"
    /\ UNCHANGED <<dealN, dealStart, dealPile, dealStep, dealPlayers, dealCommon, dealBurns>>
    /\ UNCHANGED dealOthers

DealNext == DealHole \/ DealBurn \/ DealCommon \/ DealReturn

SpecDeal == DealInit /\ [][DealNext]_vars

\* C20: deal_a_round(N, D) ends in a panic, a draw from an empty deck, exactly
\* when D has fewer than 2N + 8 cards; so a 52-card deck, at whatever cut,
\* panics for N >= 23 and is dealt for N <= 22.  The deal taken whole
\* (DealARound, which num_wins and hybrid_score go through) faults and returns
\* the same.
C20_DealFaultsIffShort ==
    dealPc \in {"returned", "panicked"} =>
        /\ dealPc = "panicked" <=> Len(dealStart) < 2 * dealN + 8
        /\ dealPc = "panicked" => dealPile = <<>>
        /\ dealPc = "returned" => Len(dealPile) = Len(dealStart) - (2 * dealN + 8)
        /\ Len(dealStart) = DECK_SIZE => (dealPc = "panicked" <=> dealN >= 23)
        /\ LET whole == DealARound(dealN, dealStart)
           IN  /\ whole.fault = "unwrap" <=> dealPc = "panicked"
               /\ dealPc = "returned" =>
                     /\ whole.game = [players |-> dealPlayers, common |-> dealCommon]
                     /\ whole.pile = dealPile
                     /\ whole.burns = dealBurns

\* A 52-card deck, cut at 17, dealt to 23 players: after the 46 hole cards, two
\* burns and four community cards the deck is empty and the third burn panics.
C20_Witness ==
    /\ dealPc = "panicked" /\ dealN = 23
    /\ dealStart = Cut(NewDeckOrder, 17)
    /\ dealStep = DECK_SIZE /\ DrawKind(dealN, dealStep) = "burn"

\* ---------------------------------------------------------------------------
\* precompute and load_table (precompute.rs 15-69, 124-144) over the hands of
\* all_hands() (hands.rs 181-243), for a deck of TableMaxCard + 1 cards.

\* "pub const HAND_SIZE: usize = 7"
HAND_SIZE == 7

\* "const MAX_CARD: u8 = 51" of the Hands iterator, scaled down.
TableMaxCard == 8

TableCards == 0..TableMaxCard

\* hands.rs binomial: "for i in 0..k { result = result * (n - i) / (i + 1) }"
RECURSIVE BinomialFrom(_, _, _, _)
BinomialFrom(n, k, i, result) ==
    IF i >= k THEN result
    ELSE BinomialFrom(n, k, i + 1, (result * (n - i)) \div (i + 1))

Binomial(n, k) == IF k > n THEN 0 ELSE IF k = 0 THEN 1 ELSE BinomialFrom(n, k, 0, 1)

\* "pub const ALL_HANDS: usize = 133_784_560", which is C(52, 7): here the
\* number of 7-card hands of the scaled deck.
ALL_HANDS == Binomial(TableMaxCard + 1, HAND_SIZE)

\* Entry::size
EntrySize == HAND_SIZE + 2

\* Hands::new: "state: Some([0, 1, 2, 3, 4, 5, 6])"
FirstHand == [j \in 1..HAND_SIZE |-> j - 1]

\* A variant of Hands::next that increments the leftmost position it can.
NextHandLeftmost(current, maxCard) ==
    LET can == {i \in 0..(HAND_SIZE - 1) :
                   current[i + 1] < maxCard - (HAND_SIZE - 1 - i)}
    IN  IF can = {} THEN <<>>
        ELSE LET i == CHOOSE x \in can : \A y \in can : x <= y
             IN  [j \in 1..HAND_SIZE |->
                     IF j - 1 < i THEN current[j] ELSE current[i + 1] + 1 + (j - 1 - i)]

\* Hands::next: the rightmost position i with current[i] < MAX_CARD - (6 - i)
\* is incremented and every position to its right is reset to one more than
\* its left neighbour; None (<<>>) when no position can be incremented.
NextHandIn(current, maxCard) ==
    LET can == {i \in 0..(HAND_SIZE - 1) :
                   current[i + 1] < maxCard - (HAND_SIZE - 1 - i)}
    IN  IF can = {} THEN <<>>
        ELSE LET i == CHOOSE x \in can : \A y \in can : y <= x
             IN  [j \in 1..HAND_SIZE |->
                     IF j - 1 < i THEN current[j] ELSE current[i + 1] + 1 + (j - 1 - i)]

\* Hands::next with the cards of the scaled table.
NextHand(current) == NextHandIn(current, TableMaxCard)

\* Hand::score as the Entry it returns.
EntryOf(hand) ==
    LET sc == HandScore(hand) IN [hand |-> hand, rank |-> sc.rank, hi |-> sc.hi]

\* Entry::serialize: put_slice(hand.as_slice()), put_u8(rank), put_u8(hi)
Serialize(e) == [j \in 1..HAND_SIZE |-> e.hand[j] % 256] \o <<e.rank % 256, e.hi % 256>>

\* A variant of Entry::deserialize that reads hi before rank.
DeserializeHiFirst(bytes) ==
    IF Len(bytes) < EntrySize
    THEN [fault |-> "advance", entry |-> [hand |-> <<>>, rank |-> 0, hi |-> 0], rest |-> bytes]
    ELSE [fault |-> NoFault,
          entry |-> [hand |-> SubSeq(bytes, 1, HAND_SIZE),
                     rank |-> bytes[HAND_SIZE + 2], hi |-> bytes[HAND_SIZE + 1]],
          rest  |-> SubSeq(bytes, EntrySize + 1, Len(bytes))]

\* Entry::deserialize: seven get_u8 for the hand, one for rank, one for hi.
\* Buf::get_u8 panics when no byte is left.
Deserialize(bytes) ==
    IF Len(bytes) < EntrySize
    THEN [fault |-> "advance", entry |-> [hand |-> <<>>, rank |-> 0, hi |-> 0], rest |-> bytes]
    ELSE [fault |-> NoFault,
          entry |-> [hand |-> SubSeq(bytes, 1, HAND_SIZE),
                     rank |-> bytes[HAND_SIZE + 1], hi |-> bytes[HAND_SIZE + 2]],
          rest  |-> SubSeq(bytes, EntrySize + 1, Len(bytes))]

\* "impl Into<TableEntry> for Entry"
IntoTableEntry(e) == [rank |-> e.rank, hi |-> e.hi]

\* HashMap::insert
Insert(table, key, value) ==
    [h \in (DOMAIN table) \cup {key} |-> IF h = key THEN value ELSE table[h]]

\* ScoreTable::score: "*self.0.get(hand).unwrap()"
TableLookup(table, hand) ==
    IF hand \in DOMAIN table THEN table[hand] ELSE [rank |-> -1, hi |-> -1]

TableInit ==
    /\ DeckIdle /\ ScoreIdle /\ GameIdle /\ FitIdle /\ OracleIdle /\ SaIdle /\ GaIdle
    /\ RaceIdle /\ CutIdle /\ DealIdle /\ LateIdle
    /\ handsState = FirstHand
    /\ handsDone = 0
    /\ buffer = <<>>
    /\ file = <<>>
    /\ input = <<>>
    /\ loaded = <<>>
    /\ loadCount = 0
    /\ overwrote = FALSE
    /\ tablePc = "precompute"

tableOthers == <<deckVars, scoreVars, gameVars, fitVars, oracleVars, saVars, gaVars,
                 raceVars, cutVars, dealVars, lateVars>>

\* precompute, one hand of all_hands(): "let e = hand.score(); e.serialize(&mut buffer)"
PrecomputeHand ==
    /\ tablePc = "precompute"
    /\ handsState # <<>>
    /\ buffer' = buffer \o Serialize(EntryOf(handsState))
    /\ handsState' = NextHand(handsState)
    /\ handsDone' = handsDone + 1
    /\ UNCHANGED <<file, input, loaded, loadCount, overwrote, tablePc>>
    /\ UNCHANGED tableOthers

\* precompute after the loop: "output.write_all(&buffer)?", which writes all
\* the bytes and gives Ok or fails with some of them written.
PrecomputeWrite ==
    /\ tablePc = "precompute"
    /\ handsState = <<>>
    /\ \E n \in 0..Len(buffer) :
          /\ file' = SubSeq(buffer, 1, n)
          /\ tablePc' = (IF n = Len(buffer) THEN "written" ELSE "write_err")
    /\ UNCHANGED <<handsState, handsDone, buffer, input, loaded, loadCount, overwrote>>
    /\ UNCHANGED tableOthers

\* load_table: "file.read_to_end(&mut v)?", which reads the file whole or
\* returns the I/O error of the read.
LoadRead ==
    /\ tablePc \in {"written", "write_err"}
    /\ \/ /\ input' = file
          /\ tablePc' = "load"
       \/ /\ input' = <<>>
          /\ tablePc' = "load_err"
    /\ UNCHANGED <<handsState, handsDone, buffer, file, loaded, loadCount, overwrote>>
    /\ UNCHANGED tableOthers

\* load_table, one iteration of "for _ in 0..ALL_HANDS":
\* "let next = Entry::deserialize(&mut bs); table.insert(next.hand, next.into())"
LoadRecord ==
    /\ tablePc = "load"
    /\ loadCount < ALL_HANDS
    /\ LET next == Deserialize(input)
       IN  IF next.fault # NoFault
           THEN /\ tablePc' = "load_panic"
                /\ UNCHANGED <<input, loaded, loadCount, overwrote>>
           ELSE /\ input' = next.rest
                /\ loaded' = Insert(loaded, next.entry.hand, IntoTableEntry(next.entry))
                /\ overwrote' = (overwrote \/ next.entry.hand \in DOMAIN loaded)
                /\ loadCount' = loadCount + 1
                /\ UNCHANGED tablePc
    /\ UNCHANGED <<handsState, handsDone, buffer, file>>
    /\ UNCHANGED tableOthers

\* load_table after the loop: "Ok(ScoreTable(table))"
LoadReturn ==
    /\ tablePc = "load"
    /\ loadCount = ALL_HANDS
    /\ tablePc' = "loaded"
    /\ UNCHANGED <<handsState, handsDone, buffer, file, input, loaded, loadCount, overwrote>>
    /\ UNCHANGED tableOthers

TableNext == PrecomputeHand \/ PrecomputeWrite \/ LoadRead \/ LoadRecord \/ LoadReturn

SpecTable == TableInit /\ [][TableNext]_vars

\* The cards of a set as an ascending sequence.
RECURSIVE Ascending(_)
Ascending(set) ==
    IF set = {} THEN <<>>
    ELSE LET least == CHOOSE x \in set : \A y \in set : x <= y
         IN  <<least>> \o Ascending(set \ {least})

\* Every sorted 7-card hand of distinct cards of the scaled deck.
SortedHands == {Ascending(h) : h \in {t \in SUBSET TableCards : Cardinality(t) = HAND_SIZE}}

\* The k-th record of a byte sequence (k from 0).
Record(bytes, k) == SubSeq(bytes, k * EntrySize + 1, (k + 1) * EntrySize)

\* C18: every record precompute writes is 9 bytes, 7 ascending card ids, then
\* the rank and the high card of Hand::score of those cards, and no two records
\* hold the same hand; deserialize undoes serialize; and the table load_table
\* builds from the file written in full gives, for every sorted 7-card hand H
\* of distinct cards, score(H) = (rank, hi) of Hand(H).score().
C18_TableRoundTrip ==
    /\ tablePc \in {"precompute", "written"} =>
          /\ Len(buffer) = EntrySize * handsDone
          /\ \A k \in 0..(handsDone - 1) :
                LET e == Deserialize(Record(buffer, k)).entry
                IN  /\ e.hand \in SortedHands
                    /\ Serialize(e) = Record(buffer, k)
                    /\ \A j \in 0..(handsDone - 1) :
                          Deserialize(Record(buffer, j)).entry.hand = e.hand => j = k
    /\ (tablePc = "precompute" /\ handsState # <<>>) =>
          Deserialize(Serialize(EntryOf(handsState))).entry = EntryOf(handsState)
    /\ tablePc = "loaded" =>
          /\ file = buffer /\ handsDone = ALL_HANDS
          /\ ~overwrote
          /\ DOMAIN loaded = SortedHands
          /\ \A h \in SortedHands :
                TableLookup(loaded, h) = IntoTableEntry(EntryOf(h))

\* The table is loaded from the complete file and holds a hand whose rank and
\* high card differ.
C18_Witness ==
    /\ tablePc = "loaded" /\ loadCount = ALL_HANDS /\ ALL_HANDS > 1
    /\ \E h \in DOMAIN loaded : loaded[h].rank # loaded[h].hi /\ loaded[h].rank > 0

\* C19: load_table applied to a truncated file (fewer than ALL_HANDS records of
\* 9 bytes) ends with a returned I/O error: it neither panics nor returns a
\* table.
C19_TruncatedGivesErr ==
    (tablePc \in {"loaded", "load_err", "load_panic"} /\ Len(file) < EntrySize * ALL_HANDS) =>
        tablePc = "load_err"

\* ---------------------------------------------------------------------------
\* generate_adaptive_mutations, AdvancedMutation::generate and
\* AdvancedMutation::apply (deck.rs 165-178, 204-290).

\* The decks mutated: new_deck_order() and a shuffle of it.
MutDecks == {NewDeckOrder, Shuffle(NewDeckOrder, CHOOSE r \in Streams : r.sq = 1)}

\* The values apply is handed for a usize field of a mutation: inside the
\* deck, at its end and beyond it.
ParamValues == {0, 1, 5, 51, 52, 53}

\* Every AdvancedMutation over ParamValues.
AnyMutations ==
    {Mut("Swap", a, b, 0) : a \in ParamValues, b \in ParamValues}
        \cup {Mut("BlockSwap", a, b, c) : a \in ParamValues, b \in ParamValues,
                                          c \in ParamValues}
        \cup {Mut("Reversal", a, b, 0) : a \in ParamValues, b \in ParamValues}
        \cup {Mut("Rotation", a, 0, 0) : a \in ParamValues}
        \cup {Mut("Scramble", a, b, 0) : a \in ParamValues, b \in ParamValues}

\* "if mutation_rate > 0.2 { rng.rand_range(2..5) } else { rng.rand_range(1..3) }"
NumMutations(rate) == IF rate > 2 THEN 2..4 ELSE 1..2

MutInit ==
    /\ EarlyIdle /\ OracleIdle /\ LateIdleBut("mut")
    /\ mutRate = 0
    /\ mutWanted = 0
    /\ mutPushed = 0
    /\ mutLast = Mut("None", 0, 0, 0)
    /\ mutDeck \in MutDecks
    /\ mutOut = <<>>
    /\ mutFault = NoFault
    /\ mutPc = "start"

mutOthers == <<earlyVars, oracleVars>>

\* generate_adaptive_mutations up to the loop: num_mutations is drawn.
GenerateBegin ==
    /\ mutPc = "start"
    /\ \E rate \in Rates :
          /\ mutRate' = rate
          /\ mutWanted' \in NumMutations(rate)
    /\ mutPc' = "generating"
    /\ UNCHANGED <<mutPushed, mutLast, mutDeck, mutOut, mutFault>>
    /\ UNCHANGED mutOthers /\ LateFrame("mut")

\* "muts.push(AdvancedMutation::generate(rng, mutation_rate))"
GeneratePush ==
    /\ mutPc = "generating"
    /\ mutPushed < mutWanted
    /\ mutLast' \in Generate(mutRate)
    /\ mutPushed' = mutPushed + 1
    /\ UNCHANGED <<mutRate, mutWanted, mutDeck, mutOut, mutFault, mutPc>>
    /\ UNCHANGED mutOthers /\ LateFrame("mut")

\* generate_adaptive_mutations returns muts.
GenerateReturn ==
    /\ mutPc = "generating"
    /\ mutPushed = mutWanted
    /\ mutPc' = "generated"
    /\ UNCHANGED <<mutRate, mutWanted, mutPushed, mutLast, mutDeck, mutOut, mutFault>>
    /\ UNCHANGED mutOthers /\ LateFrame("mut")

\* The caller applies a mutation of the list returned.
ApplyGenerated ==
    /\ mutPc = "generated"
    /\ \E r \in (IF mutLast.kind = "Scramble" THEN Streams
                  ELSE {CHOOSE r0 \in Streams : TRUE}) :
          LET res == Apply(mutLast, mutDeck, r)
          IN  /\ mutOut' = res.deck
              /\ mutFault' = res.fault
    /\ mutPc' = "applied"
    /\ UNCHANGED <<mutRate, mutWanted, mutPushed, mutLast, mutDeck>>
    /\ UNCHANGED mutOthers /\ LateFrame("mut")

\* AdvancedMutation::apply called with a mutation of any parameters.
ApplyAny ==
    /\ mutPc = "start"
    /\ \E m \in AnyMutations :
          \E r \in (IF m.kind = "Scramble" THEN Streams
                     ELSE {CHOOSE r0 \in Streams : TRUE}) :
             LET res == Apply(m, mutDeck, r)
             IN  /\ mutLast' = m
                 /\ mutOut' = res.deck
                 /\ mutFault' = res.fault
    /\ mutPc' = "applied"
    /\ UNCHANGED <<mutRate, mutWanted, mutPushed, mutDeck>>
    /\ UNCHANGED mutOthers /\ LateFrame("mut")

MutNext == GenerateBegin \/ GeneratePush \/ GenerateReturn \/ ApplyGenerated \/ ApplyAny

SpecMutate == MutInit /\ [][MutNext]_vars

\* Whether a mutation addresses an index outside 0..51.
OutOfRange(m) ==
    CASE m.kind = "Swap" -> m.a > 51 \/ m.b > 51
      [] m.kind = "BlockSwap" -> m.c > 0 /\ (m.a + m.c > 52 \/ m.b + m.c > 52)
      [] m.kind = "Reversal" -> m.a < m.b /\ m.b > 52
      [] m.kind = "Rotation" -> m.a > 52
      [] OTHER -> m.a < m.b /\ m.b > 52

\* C21: apply returns without a panic for every variant and every parameter
\* value, and returns the deck unchanged when the mutation would address an
\* index outside 0..51.
C21_ApplyNeverFaults ==
    mutPc = "applied" =>
        /\ mutFault = NoFault
        /\ OutOfRange(mutLast) => mutOut = mutDeck

\* C25: BlockSwap(a, b, len) exchanges the segments [a, a+len) and [b, b+len)
\* position by position when they are disjoint and within bounds, leaves the
\* deck unchanged when they overlap or one of them exceeds position 51, and
\* never changes a position outside the two segments.
C25_BlockSwapExchangesOrNoOp ==
    (mutPc = "applied" /\ mutLast.kind = "BlockSwap" /\ mutFault = NoFault) =>
        LET a == mutLast.a
            b == mutLast.b
            len == mutLast.c
            inBounds == a + len <= 52 /\ b + len <= 52
            disjoint == a + len <= b \/ b + len <= a
        IN  /\ (inBounds /\ disjoint) =>
                  \A i \in 0..(len - 1) :
                     /\ mutOut[a + i + 1] = mutDeck[b + i + 1]
                     /\ mutOut[b + i + 1] = mutDeck[a + i + 1]
            /\ (~inBounds \/ ~disjoint) => mutOut = mutDeck
            /\ \A p \in 0..51 :
                  (~(a <= p /\ p < a + len) /\ ~(b <= p /\ p < b + len)) =>
                      mutOut[p + 1] = mutDeck[p + 1]

\* C27: generate_adaptive_mutations returns 1 or 2 mutations when rate <= 0.2,
\* each a Swap, Reversal or BlockSwap, and 2, 3 or 4 mutations of any kind
\* when rate > 0.2; the parameters generated are in range (Swap i, j in 0..51;
\* BlockSwap 2 <= len <= 7 and start + len <= 51; Reversal start <= end <= 51;
\* Rotation k in 1..51; Scramble at most 10 long), the list is never empty and
\* applying a generated mutation never panics.
C27_GeneratedInRange ==
    mutRate # 0 =>
        /\ mutWanted \in (IF mutRate > 2 THEN 2..4 ELSE 1..2)
        /\ mutPushed <= mutWanted
        /\ mutPc \in {"generated", "applied"} => (mutPushed = mutWanted /\ mutPushed >= 1)
        /\ mutPushed > 0 =>
              /\ mutRate <= 2 => mutLast.kind \in {"Swap", "Reversal", "BlockSwap"}
              /\ mutLast.kind \in {"Swap", "Reversal", "BlockSwap", "Rotation", "Scramble"}
              /\ mutLast.kind = "Swap" => (mutLast.a \in 0..51 /\ mutLast.b \in 0..51)
              /\ mutLast.kind = "BlockSwap" =>
                    /\ mutLast.c \in 2..7
                    /\ mutLast.a >= 0 /\ mutLast.a + mutLast.c <= 51
                    /\ mutLast.b >= 0 /\ mutLast.b + mutLast.c <= 51
              /\ mutLast.kind = "Reversal" =>
                    (0 <= mutLast.a /\ mutLast.a <= mutLast.b /\ mutLast.b <= 51)
              /\ mutLast.kind = "Rotation" => mutLast.a \in 1..51
              /\ mutLast.kind = "Scramble" =>
                    /\ 0 <= mutLast.a /\ mutLast.a <= mutLast.b /\ mutLast.b <= 51
                    /\ mutLast.b - mutLast.a <= 10
        /\ mutPc = "applied" => (mutFault = NoFault /\ IsPermutation(mutOut))

\* At rate 0.3 four mutations were generated, the last a Scramble, and applying
\* it changed the deck.
C27_Witness ==
    /\ mutPc = "applied" /\ mutRate = 3 /\ mutWanted = 4 /\ mutPushed = 4
    /\ mutLast.kind = "Scramble"
    /\ mutFault = NoFault /\ mutOut # mutDeck

\* ---------------------------------------------------------------------------
\* all_hands(): the Hands iterator (hands.rs 181-243), for a deck of
\* HandsMaxCard + 1 cards.

\* "const MAX_CARD: u8 = 51" of Hands::next, scaled down.
HandsMaxCard == 10

\* How often next() is called after it has returned None.
MaxExtraCalls == 2

HandsInit ==
    /\ EarlyIdle /\ OracleIdle /\ LateIdleBut("hands")
    /\ enumState = FirstHand
    /\ yielded = <<>>
    /\ lastItem = <<>>
    /\ extraCalls = 0
    /\ enumPc = "iterating"

\* One call of Hands::next: "let current = self.state?", the hand of the
\* current state is returned and the state moves to the next combination.
HandsNextSome ==
    /\ enumPc = "iterating"
    /\ enumState # <<>>
    /\ lastItem' = enumState
    /\ yielded' = Append(yielded, enumState)
    /\ enumState' = NextHandIn(enumState, HandsMaxCard)
    /\ UNCHANGED <<extraCalls, enumPc>>
    /\ UNCHANGED <<earlyVars, oracleVars>> /\ LateFrame("hands")

\* A call of Hands::next on the exhausted iterator: "self.state?" returns None.
HandsNextNone ==
    /\ enumPc = "iterating"
    /\ enumState = <<>>
    /\ extraCalls < MaxExtraCalls
    /\ lastItem' = <<>>
    /\ extraCalls' = extraCalls + 1
    /\ UNCHANGED <<enumState, yielded, enumPc>>
    /\ UNCHANGED <<earlyVars, oracleVars>> /\ LateFrame("hands")

HandsNext == HandsNextSome \/ HandsNextNone

SpecHands == HandsInit /\ [][HandsNext]_vars

\* The lexicographic order of two tuples of the same length.
TupleLess(x, y) ==
    \E i \in 1..Len(x) :
        /\ \A j \in 1..(i - 1) : x[j] = y[j]
        /\ x[i] < y[i]

\* Every 7-element subset of the cards of the scaled deck.
HandSets == {t \in SUBSET (0..HandsMaxCard) : Cardinality(t) = HAND_SIZE}

\* C22: all_hands() yields strictly increasing 7-tuples of card ids in
\* lexicographic order, the first [0,1,2,3,4,5,6]; when it is exhausted it has
\* yielded every 7-element subset of the cards exactly once, C(n, 7) hands in
\* all, the last one the 7 highest cards, and every further call returns None.
C22_AllHandsLexicographic ==
    enumPc = "iterating" =>
        /\ yielded # <<>> =>
              LET n == Len(yielded)
                  h == yielded[n]
              IN  /\ yielded[1] = <<0, 1, 2, 3, 4, 5, 6>>
                  /\ \A j \in 1..HAND_SIZE : h[j] \in 0..HandsMaxCard
                  /\ \A j \in 1..(HAND_SIZE - 1) : h[j] < h[j + 1]
                  /\ n > 1 => TupleLess(yielded[n - 1], h)
        /\ enumState = <<>> =>
              /\ Len(yielded) = Binomial(HandsMaxCard + 1, HAND_SIZE)
              /\ yielded[Len(yielded)] = [j \in 1..HAND_SIZE |-> HandsMaxCard - HAND_SIZE + j]
              /\ {Range(yielded[k]) : k \in 1..Len(yielded)} = HandSets
              /\ Cardinality(HandSets) = Len(yielded)
        /\ extraCalls > 0 => (lastItem = <<>> /\ enumState = <<>>)

\* The iterator is exhausted after the hand of the 7 highest cards and has
\* been called twice more, returning None.
C22_Witness ==
    /\ enumPc = "iterating" /\ enumState = <<>> /\ extraCalls = 2
    /\ Len(yielded) > 100
    /\ lastItem = <<>>

\* ---------------------------------------------------------------------------
\* Card::new, Card::into_inner, Card::valid and the Suit conversions
\* (cards.rs 8-24, 42-51, 74-98).

Suits == {"Clubs", "Spades", "Hearts", "Diamonds"}

\* "impl From<Suit> for u8"
SuitIntoU8(suit) ==
    CASE suit = "Clubs" -> 0
      [] suit = "Spades" -> 1
      [] suit = "Hearts" -> 2
      [] suit = "Diamonds" -> 3

\* "impl From<u8> for Suit": panics on a byte above 3.
SuitFrom(byte) ==
    CASE byte = 0 -> "Clubs"
      [] byte = 1 -> "Spades"
      [] byte = 2 -> "Hearts"
      [] byte = 3 -> "Diamonds"
      [] OTHER -> "panic"

\* Value::new: panics unless 0 < value <= 13.
ValueNew(value) == IF value > 0 /\ value <= 13 THEN value ELSE -1

\* Card::into_inner
IntoInner(c) ==
    LET suit  == SuitFrom(CardSuit(c))
        value == ValueNew(CardValue(c))
    IN  [value |-> value, suit |-> suit,
         fault |-> IF value = -1 THEN "Illegal card value"
                   ELSE IF suit = "panic" THEN "Invalid suit" ELSE NoFault]

\* Card::new on a Value and a Suit, in u8.
NewCard(value, suit) == CardNew(value, SuitIntoU8(suit)) % 256

CardInit ==
    /\ EarlyIdle /\ OracleIdle /\ LateIdleBut("card")
    /\ cardId \in 0..255
    /\ cardParts = <<>>
    /\ cardBack = -1
    /\ suitIn \in Suits
    /\ suitByte = -1
    /\ suitBack = "none"
    /\ cardPc = "converting"

\* "let (value, suit) = card.into_inner()"
CardIntoInner ==
    /\ cardPc = "converting"
    /\ cardParts = <<>>
    /\ cardParts' = IntoInner(cardId)
    /\ UNCHANGED <<cardId, cardBack, suitIn, suitByte, suitBack, cardPc>>
    /\ UNCHANGED <<earlyVars, oracleVars>> /\ LateFrame("card")

\* "let card2 = Card::new(value, suit)"
CardNewAgain ==
    /\ cardPc = "converting"
    /\ cardParts # <<>>
    /\ cardBack = -1
    /\ cardParts.fault = NoFault
    /\ cardBack' = NewCard(cardParts.value, cardParts.suit)
    /\ UNCHANGED <<cardId, cardParts, suitIn, suitByte, suitBack, cardPc>>
    /\ UNCHANGED <<earlyVars, oracleVars>> /\ LateFrame("card")

\* "let as_u8: u8 = suit.into()"
SuitToByte ==
    /\ cardPc = "converting"
    /\ suitByte = -1
    /\ suitByte' = SuitIntoU8(suitIn)
    /\ UNCHANGED <<cardId, cardParts, cardBack, suitIn, suitBack, cardPc>>
    /\ UNCHANGED <<earlyVars, oracleVars>> /\ LateFrame("card")

\* "let back_to_suit = Suit::from(as_u8)"
SuitFromByte ==
    /\ cardPc = "converting"
    /\ suitByte # -1
    /\ suitBack = "none"
    /\ suitBack' = SuitFrom(suitByte)
    /\ UNCHANGED <<cardId, cardParts, cardBack, suitIn, suitByte, cardPc>>
    /\ UNCHANGED <<earlyVars, oracleVars>> /\ LateFrame("card")

CardNext == CardIntoInner \/ CardNewAgain \/ SuitToByte \/ SuitFromByte

SpecCard == CardInit /\ [][CardNext]_vars

\* C23: for a card id in 0..51, into_inner gives suit = id / 13, in 0..3, and
\* value = (id mod 13) + 1, in 1..13, and Card::new of the two is the card
\* again; Suit -> u8 -> Suit is the identity with the u8 in 0..3; and valid(c)
\* holds exactly when the id is at most 51.
C23_CardRoundTrip ==
    cardPc = "converting" =>
        /\ (cardId \in 0..51 /\ cardParts # <<>>) =>
              /\ cardParts.fault = NoFault
              /\ SuitIntoU8(cardParts.suit) = cardId \div 13
              /\ SuitIntoU8(cardParts.suit) \in 0..3
              /\ cardParts.value = (cardId % 13) + 1
              /\ cardParts.value \in 1..13
              /\ cardBack # -1 => cardBack = cardId
        /\ suitByte # -1 => suitByte \in 0..3
        /\ suitBack # "none" => suitBack = suitIn
        /\ CardValid(cardId) <=> cardId \in 0..51

\* The card 51 was taken apart into the value 13 of suit 3 and built again,
\* and a suit was converted to its byte and back.
C23_Witness ==
    /\ cardPc = "converting" /\ cardId = 51
    /\ cardParts # <<>> /\ cardBack = 51
    /\ suitIn = "Diamonds" /\ suitByte = 3 /\ suitBack = "Diamonds"

\* ---------------------------------------------------------------------------
\* island_genetic_search and evolve_island (search.rs 460-708), on islands
\* scaled down from 10 islands of 30.

NUM_ISLANDS == 3

ISLAND_POP_SIZE == 3

MIGRATION_INTERVAL == 1

NUM_MIGRANTS == 2

MaxCycles == 1

IslandIds == 1..NUM_ISLANDS

\* How the shuffles of the initialisation fall: island i gets the decks
\* i + s, i + s + 1, ... of Family, in a round.
IslandSeeds == {0, 1}

SeededIsland(i, s) ==
    [k \in 1..ISLAND_POP_SIZE |-> ScoredDeck(((i + s + k) % Len(Family)) + 1)]

\* The children of one generation of evolve_island: the crossover rounds give
\* no child (the same parent twice) or each a child, the SA rounds each give
\* the deck local_search_sa returns; here all children of a brood are one deck.
IslandBroods ==
    {[k \in 1..(n + NUM_MUTATIONS) |-> a] : n \in {0, NUM_CROSSOVERS}, a \in DeckIds}

\* One pass of the loop of evolve_island up to "population = new_generation".
EvolveGeneration(population, brood) ==
    LET elites   == SubSeq(population, 1, Min2(ELITE_SIZE, Len(population)))
        children == [k \in 1..Len(brood) |-> ScoredDeck(brood[k])]
        rest     == SubSeq(population, ELITE_SIZE + 1, Len(population))
    IN  Truncate(SortByScore(elites \o children \o rest), ISLAND_POP_SIZE)

\* "islands.iter().flat_map(|island| island.iter())"
RECURSIVE FlatFrom(_, _)
FlatFrom(isl, i) == IF i > Len(isl) THEN <<>> ELSE isl[i] \o FlatFrom(isl, i + 1)

FlatIslands(isl) == FlatFrom(isl, 1)

\* "for i in 0..NUM_MIGRANTS.min(island.len()) { island_migrants.push(island[i].clone()) }"
Migrants(isl) == [i \in 1..Len(isl) |-> SubSeq(isl[i], 1, Min2(NUM_MIGRANTS, Len(isl[i])))]

\* "for migrant in &migrants[source_island] { if len > NUM_MIGRANTS { pop() }; push(migrant) }"
RECURSIVE Inject(_, _, _)
Inject(population, migrants, k) ==
    IF k > Len(migrants) THEN population
    ELSE LET kept == IF Len(population) > NUM_MIGRANTS
                     THEN SubSeq(population, 1, Len(population) - 1)
                     ELSE population
         IN  Inject(kept \o <<migrants[k]>>, migrants, k + 1)

\* "(island_id + NUM_ISLANDS - 1) % NUM_ISLANDS", on islands numbered from 1.
SourceIsland(id) == (((id - 1) + NUM_ISLANDS - 1) % NUM_ISLANDS) + 1

\* The migration: migrants collected from every island first, then injected
\* into the next island of the ring, which is sorted again.
Migrate(isl) ==
    [id \in 1..Len(isl) |-> SortByScore(Inject(isl[id], Migrants(isl)[SourceIsland(id)], 1))]

IslandInit ==
    /\ EarlyIdle /\ LateIdleBut("isl")
    /\ winsOf \in [DeckIds -> WinLevels]
    /\ marginOf = [d \in DeckIds |-> 0]
    /\ \E s \in IslandSeeds :
          islands = [i \in IslandIds |-> SortByScore(SeededIsland(i, s))]
    /\ islPre = <<>>
    /\ islGen = [i \in IslandIds |-> 0]
    /\ islCycle = 1
    /\ islPc = "evolve"
    /\ islResult = 0

\* One generation in the thread of island i; a perfect best score ends the
\* thread's loop early.
IslandGeneration(i) ==
    /\ islPc = "evolve"
    /\ islGen[i] < MIGRATION_INTERVAL
    /\ \E brood \in IslandBroods :
          LET population == EvolveGeneration(islands[i], brood) IN
          /\ islands' = [islands EXCEPT ![i] = population]
          /\ islGen' = [islGen EXCEPT ![i] =
                           IF Max2(islands[i][1].score, population[1].score) = MaxWins(REAL)
                           THEN MIGRATION_INTERVAL ELSE islGen[i] + 1]
    /\ UNCHANGED <<islPre, islCycle, islPc, islResult>>
    /\ UNCHANGED <<earlyVars, oracleVars>> /\ LateFrame("isl")

AllJoined == \A i \in IslandIds : islGen[i] = MIGRATION_INTERVAL

\* All threads joined and some island holds a perfect deck: the last of the
\* best individuals in island order is returned.
IslandReturn ==
    /\ islPc = "evolve"
    /\ AllJoined
    /\ MaxScore(FlatIslands(islands)) = MaxWins(REAL)
    /\ LET all == FlatIslands(islands)
           k   == MaxOf({j \in 1..Len(all) : all[j].score = MaxScore(all)})
       IN  islResult' = all[k].deck
    /\ islPc' = "returned"
    /\ UNCHANGED <<islands, islPre, islGen, islCycle>>
    /\ UNCHANGED <<earlyVars, oracleVars>> /\ LateFrame("isl")

\* All threads joined and no island holds a perfect deck: the migration, and
\* the next cycle.
IslandMigrate ==
    /\ islPc = "evolve"
    /\ AllJoined
    /\ MaxScore(FlatIslands(islands)) # MaxWins(REAL)
    /\ islPre' = islands
    /\ islands' = Migrate(islands)
    /\ islCycle' = islCycle + 1
    /\ IF islCycle < MaxCycles
       THEN /\ islPc' = "evolve"
            /\ islGen' = [i \in IslandIds |-> 0]
       ELSE /\ islPc' = "migrated"
            /\ islGen' = islGen
    /\ islResult' = 0
    /\ UNCHANGED <<earlyVars, oracleVars>> /\ LateFrame("isl")

IslandNext == (\E i \in IslandIds : IslandGeneration(i)) \/ IslandReturn \/ IslandMigrate

SpecIsland == IslandInit /\ [][IslandNext]_vars

\* How often the individual x occurs in a population.
Copies(population, x) == Cardinality({k \in 1..Len(population) : population[k] = x})

\* The population holds the individuals of the two sequences, as often.
HoldsExactly(population, kept, arrived) ==
    \A x \in Range(population) \cup Range(kept) \cup Range(arrived) :
        Copies(population, x) = Copies(kept, x) + Copies(arrived, x)

SortedDescending(population) ==
    \A k \in 1..(Len(population) - 1) : population[k].score >= population[k + 1].score

\* C24: after a migration the island after island i in the ring holds the
\* two best individuals of island i as they were before the migration, has
\* lost its own two lowest and kept its others, still has ISLAND_POP_SIZE
\* individuals and is sorted by descending score.
C24_MigrationRing ==
    islPre # <<>> =>
        \A id \in IslandIds :
            LET old  == islPre[id]
                from == islPre[SourceIsland(id)]
            IN  /\ Len(islands[id]) = ISLAND_POP_SIZE
                /\ SortedDescending(islands[id])
                /\ HoldsExactly(islands[id],
                                SubSeq(old, 1, Len(old) - NUM_MIGRANTS),
                                SubSeq(from, 1, NUM_MIGRANTS))

\* ---------------------------------------------------------------------------
\* beam_search (search.rs 713-922), on a beam scaled down from 50.

BEAM_WIDTH == 2

MUTATIONS_PER_BEAM == 1

BEAM_MAX_ITERATIONS == 2

\* A beam member: "(optimized, wins, hybrid)" with the pair local_search_sa
\* returned and hybrid_score of its deck.
BeamEntry(pair) == [deck |-> pair.deck, wins |-> pair.score, hybrid |-> HybridScoreOf(pair.deck)]

\* "sort_by(|a, b| b.2.partial_cmp(&a.2).unwrap())"
SortByHybrid(entries0) ==
    Only({Permuted(entries, OrderDescFrom([k \in 1..Len(entries) |-> entries[k].hybrid], 1, <<>>))
          : entries \in {entries0}})

\* "let accept = if *cand_wins >= best_score { true } else { adjusted_fitness >= threshold }",
\* with both sides of the comparison times 10 * new_beam.len().
BeamAccepts(cand, newBeam, bestScore, bestHybrid) ==
    LET n     == IF newBeam = <<>> THEN 1 ELSE Len(newBeam)
        total == IF newBeam = <<>> THEN 52 ELSE TotalDistance(cand.deck, newBeam)
    IN  \/ cand.wins >= bestScore
        \/ 10 * n * cand.hybrid + 3 * total >= 10 * n * (bestHybrid - 500000)

\* The greedy selection over the sorted candidates, from candidate k on.
RECURSIVE SelectBeam(_, _, _, _, _, _)
SelectBeam(cands0, k, newBeam0, remaining0, bestScore, bestHybrid) ==
  Only({
    IF k > Len(cands) THEN [beam |-> newBeam, remaining |-> remaining]
    ELSE IF Len(newBeam) < BEAM_WIDTH /\ BeamAccepts(cands[k], newBeam, bestScore, bestHybrid)
         THEN SelectBeam(cands, k + 1, Append(newBeam, cands[k]), remaining, bestScore, bestHybrid)
         ELSE SelectBeam(cands, k + 1, newBeam, Append(remaining, cands[k]), bestScore, bestHybrid)
    : cands \in {cands0}, newBeam \in {newBeam0}, remaining \in {remaining0}})

\* "fill with best remaining candidates": those whose deck the beam lacks.
RECURSIVE FillBeam(_, _, _)
FillBeam(newBeam0, remaining0, k) ==
  Only({
    IF k > Len(remaining) \/ Len(newBeam) >= BEAM_WIDTH THEN newBeam
    ELSE IF \E j \in 1..Len(newBeam) : newBeam[j].deck = remaining[k].deck
         THEN FillBeam(newBeam, remaining, k + 1)
         ELSE FillBeam(Append(newBeam, remaining[k]), remaining, k + 1)
    : newBeam \in {newBeam0}, remaining \in {remaining0}})

\* The beam one iteration makes of the candidates.
NewBeam(candidates, bestScore, bestHybrid) ==
    Only({SortByHybrid(IF Len(chosen.beam) < BEAM_WIDTH
                       THEN FillBeam(chosen.beam, SortByHybrid(chosen.remaining), 1)
                       ELSE chosen.beam)
          : chosen \in {SelectBeam(SortByHybrid(candidates), 1, <<>>, <<>>,
                                   bestScore, bestHybrid)}})

\* The margins of the runs of this part: high for the decks of one of two sets.
BeamMargins ==
    {[d \in DeckIds |-> IF d \in high THEN MarginMax(winsOf[d]) ELSE MarginMin(winsOf[d])] :
        high \in {{2, 4}, {3, 4}}}

BeamInit ==
    /\ EarlyIdle /\ LateIdleBut("beam")
    /\ winsOf \in [DeckIds -> WinLevels]
    /\ marginOf \in BeamMargins
    /\ \E s \in IslandSeeds :
          beam = SortByHybrid([k \in 1..BEAM_WIDTH |->
                                  BeamEntry(ScoredDeck(((s + k) % Len(Family)) + 1))])
    /\ beamIter = 0
    /\ beamBestScore = beam[1].wins
    /\ beamPc = "loop"
    /\ beamResult = 0

\* One iteration: the elites, the candidates of the threads, the selection,
\* the sort, the progress, the return on a perfect first member.
BeamIterate ==
    /\ beamPc = "loop"
    /\ beamIter < BEAM_MAX_ITERATIONS
    /\ beamIter' = beamIter + 1
    /\ IF Len(beam) < Min2(BEAM_WIDTH, 5)
       THEN /\ beamPc' = "panicked"
            /\ UNCHANGED <<beam, beamBestScore, beamResult>>
       ELSE \E refined \in [1..(Len(beam) * MUTATIONS_PER_BEAM) -> DeckIds] :
               LET elites     == SubSeq(beam, 1, Min2(BEAM_WIDTH, 5))
                   threads    == [k \in 1..Len(refined) |-> BeamEntry(ScoredDeck(refined[k]))]
               IN  \E newBeam \in {NewBeam(elites \o threads, beamBestScore, beam[1].hybrid)} :
                   LET currentBest == newBeam[1].wins IN
                   /\ beam' = newBeam
                   /\ beamBestScore' = Max2(beamBestScore, currentBest)
                   /\ IF currentBest = MaxWins(REAL)
                      THEN /\ beamPc' = "returned"
                           /\ beamResult' = newBeam[1].deck
                      ELSE /\ beamPc' = "loop"
                           /\ beamResult' = 0
    /\ UNCHANGED <<earlyVars>> /\ UNCHANGED oracleVars /\ LateFrame("beam")

\* The loop is over: "beam[0].0.clone()".
BeamCap ==
    /\ beamPc = "loop"
    /\ beamIter = BEAM_MAX_ITERATIONS
    /\ beamPc' = "returned"
    /\ beamResult' = beam[1].deck
    /\ UNCHANGED <<beam, beamIter, beamBestScore>>
    /\ UNCHANGED <<earlyVars>> /\ UNCHANGED oracleVars /\ LateFrame("beam")

BeamNext == BeamIterate \/ BeamCap

SpecBeam == BeamInit /\ [][BeamNext]_vars

\* ---------------------------------------------------------------------------
\* ant_colony_search (search.rs 1049-1180), on a colony scaled down.  The
\* pheromone matrix only weighs the random choices of the build, which are
\* free here.

NUM_ANTS == 2

ACO_MAX_ITERATIONS == 3

RESTART_THRESHOLD == 2

MAX_RESTARTS == 2

\* A variant of the restart test that waits one iteration longer.
StuckLate(stale) == stale > RESTART_THRESHOLD

\* "if iterations_without_improvement >= RESTART_THRESHOLD { break }"
Stuck(stale) == stale >= RESTART_THRESHOLD

AcoInit ==
    /\ EarlyIdle /\ LateIdleBut("aco")
    /\ winsOf \in [DeckIds -> WinLevels]
    /\ marginOf = [d \in DeckIds |-> 0]
    /\ acoAnts = <<>>
    /\ acoBestDeck = 1
    /\ acoBestScore = 0
    /\ acoRestarts = 0
    /\ acoIter = 0
    /\ acoStale = 0
    /\ acoPc = "while"
    /\ acoResult = 0

\* "while restart_count < MAX_RESTARTS { restart_count += 1; ..."
AcoRestart ==
    /\ acoPc = "while"
    /\ acoRestarts < MAX_RESTARTS
    /\ acoRestarts' = acoRestarts + 1
    /\ acoStale' = 0
    /\ acoIter' = 0
    /\ acoPc' = "for"
    /\ UNCHANGED <<acoAnts, acoBestDeck, acoBestScore, acoResult>>
    /\ UNCHANGED <<earlyVars>> /\ UNCHANGED oracleVars /\ LateFrame("aco")

\* One iteration of a restart: the ants built and refined, the sort, the
\* best ever, the return on a perfect deck, the break when stuck.
AcoIterate ==
    /\ acoPc = "for"
    /\ acoIter < ACO_MAX_ITERATIONS
    /\ acoIter' = acoIter + 1
    /\ \E refined \in [1..NUM_ANTS -> DeckIds] :
          \E ants \in {SortByScore([k \in 1..NUM_ANTS |-> ScoredDeck(refined[k])])} :
          LET improved == ants[1].score > acoBestScore
              best     == IF improved THEN ants[1].score ELSE acoBestScore
              stale    == IF improved THEN 0 ELSE acoStale + 1
          IN  /\ acoAnts' = ants
              /\ acoBestScore' = best
              /\ acoBestDeck' = (IF improved THEN ants[1].deck ELSE acoBestDeck)
              /\ acoStale' = stale
              /\ IF best = MaxWins(REAL)
                 THEN /\ acoPc' = "returned"
                      /\ acoResult' = acoBestDeck'
                 ELSE /\ acoPc' = (IF Stuck(stale) \/ acoIter + 1 = ACO_MAX_ITERATIONS
                                   THEN "while" ELSE "for")
                      /\ acoResult' = 0
    /\ UNCHANGED acoRestarts
    /\ UNCHANGED <<earlyVars>> /\ UNCHANGED oracleVars /\ LateFrame("aco")

\* Max restarts reached: "best_ever_deck".
AcoCap ==
    /\ acoPc = "while"
    /\ acoRestarts >= MAX_RESTARTS
    /\ acoPc' = "returned"
    /\ acoResult' = acoBestDeck
    /\ UNCHANGED <<acoAnts, acoBestDeck, acoBestScore, acoRestarts, acoIter, acoStale>>
    /\ UNCHANGED <<earlyVars>> /\ UNCHANGED oracleVars /\ LateFrame("aco")

AcoNext == AcoRestart \/ AcoIterate \/ AcoCap

SpecAco == AcoInit /\ [][AcoNext]_vars

\* ---------------------------------------------------------------------------
\* The loops of genetic_search, beam_search, ant_colony_search and
\* local_search_sa, each run to its end.  A running strategy is a sequential
\* program (the threads of beam_search are joined within the iteration), so
\* it takes its next step whenever it has one: weak fairness of its steps.

\* The verdicts of the table in these runs: win counts that do not fall along
\* Family.
LoopOracle == \A d \in DeckIds \ {1} : winsOf[d - 1] <= winsOf[d]

LoopsInit == (GaInit \/ BeamInit \/ AcoInit \/ SaInit) /\ LoopOracle

LoopsNext == GaNext \/ BeamNext \/ AcoNext \/ SaNext

SpecLoops == LoopsInit /\ [][LoopsNext]_vars /\ WF_vars(LoopsNext)

\* The counters of the four loops within the caps of the code.
LoopsWithinCaps ==
    /\ gaPc = "loop" => gaGeneration <= MAX_GENERATIONS
    /\ gaPc = "returned" => gaGeneration <= MAX_GENERATIONS + 1
    /\ beamPc # "idle" => beamIter <= BEAM_MAX_ITERATIONS /\ beamPc # "panicked"
    /\ acoPc # "idle" =>
          /\ acoRestarts <= MAX_RESTARTS
          /\ acoIter <= ACO_MAX_ITERATIONS
          /\ acoStale <= RESTART_THRESHOLD
          /\ acoPc = "for" => acoStale < RESTART_THRESHOLD /\ acoIter < ACO_MAX_ITERATIONS
    /\ saPc # "idle" => saIter <= saBudget

\* The strategy that runs has returned a deck.
LoopsReturned ==
    \/ gaPc = "returned" /\ gaResult \in DeckIds
    \/ beamPc = "returned" /\ beamResult \in DeckIds
    \/ acoPc = "returned" /\ acoResult \in DeckIds
    \/ saPc = "returned" /\ saBest \in DeckIds

BookInit == LoopsInit \/ (IslandInit /\ LoopOracle)

BookNext == LoopsNext \/ IslandNext

SpecBook == BookInit /\ [][BookNext]_vars

\* Every pair of the sequence holds its deck's num_wins.
PairsScored(pairs) == \A k \in 1..Len(pairs) : pairs[k].score = NumWinsOf(pairs[k].deck)

\* C28: every (deck, wins) pair stored by genetic_search, by
\* island_genetic_search (after a migration too), by beam_search and by
\* ant_colony_search has wins = num_wins(deck), every beam triple has
\* hybrid = hybrid_score(deck) as well, and the pair local_search_sa returns
\* has wins = num_wins of the deck returned.
C28_PairsCarryNumWins ==
    /\ PairsScored(gaPop) /\ PairsScored(gaNewGeneration)
    /\ \A i \in 1..Len(islands) : PairsScored(islands[i])
    /\ \A k \in 1..Len(beam) :
          /\ beam[k].wins = NumWinsOf(beam[k].deck)
          /\ beam[k].hybrid = HybridScoreOf(beam[k].deck)
    /\ PairsScored(acoAnts)
    /\ acoBestScore > 0 => acoBestScore = NumWinsOf(acoBestDeck)
    /\ saPc = "returned" => saBestWins = NumWinsOf(saBest)

\* A migration has brought an island a deck that wins more often than one it
\* kept, and sorted it to the front.
C28_Witness ==
    /\ islPre # <<>>
    /\ \E i \in IslandIds :
          /\ islands[i][1] = islPre[SourceIsland(i)][NUM_MIGRANTS]
          /\ islands[i][1].score > islands[i][2].score
          /\ \A k \in 1..Len(islPre[i]) : islPre[i][k].deck # islands[i][1].deck

\* ---------------------------------------------------------------------------
\* The hands Game::players_score hands to ScoreTable::score for the games
\* num_wins and hybrid_score deal (game.rs 108-188, precompute.rs 9-13).

MaxLookupPlayers == 22

\* The keys of the loaded table: load_table inserts the hands all_hands()
\* yields, the strictly increasing tuples of cards up to MAX_CARD.
IsTableKey(hand) ==
    /\ \A i \in 1..Len(hand) : CardValid(hand[i])
    /\ \A i \in 1..(Len(hand) - 1) : hand[i] < hand[i + 1]

\* ScoreTable::score: "*self.0.get(hand).unwrap()"
TableScoreOrMiss(hand) == IF IsTableKey(hand) THEN TableScore(hand) ELSE [rank |-> -1, hi |-> -1]

LookupInit ==
    /\ EarlyIdle /\ OracleIdle /\ LateIdleBut("lk")
    /\ lkDeck \in GameDecks
    /\ lkN \in 2..MaxLookupPlayers
    /\ lkCut \in CutRange
    /\ lkGame = NoGame
    /\ lkIdx = 0
    /\ lkHands = <<>>
    /\ lkFault = NoFault
    /\ lkPc = "deal"

\* "deal_a_round(num_players, deck.clone().cut(cut_pos))"
LookupDeal ==
    /\ lkPc = "deal"
    /\ \E round \in {DealARound(lkN, Cut(lkDeck, lkCut))} :
          /\ lkGame' = round.game
          /\ lkFault' = round.fault
          /\ lkPc' = (IF round.fault = NoFault THEN "score" ELSE "panicked")
    /\ UNCHANGED <<lkDeck, lkN, lkCut, lkIdx, lkHands>>
    /\ UNCHANGED <<earlyVars, oracleVars>> /\ LateFrame("lk")

\* players_score of the next player of winning_player's max_by_key: its
\* hands are built and looked up one after the other.
LookupScore ==
    /\ lkPc = "score"
    /\ lkIdx < lkN
    /\ \E hands \in {PlayerHands(lkGame, lkIdx)} :
          /\ lkHands' = hands
          /\ IF \E t \in 1..Len(hands) : TableScoreOrMiss(hands[t]).rank = -1
             THEN /\ lkFault' = "unwrap"
                  /\ lkPc' = "panicked"
                  /\ lkIdx' = lkIdx
             ELSE /\ lkFault' = lkFault
                  /\ lkPc' = (IF lkIdx + 1 = lkN THEN "done" ELSE "score")
                  /\ lkIdx' = lkIdx + 1
    /\ UNCHANGED <<lkDeck, lkN, lkCut, lkGame>>
    /\ UNCHANGED <<earlyVars, oracleVars>> /\ LateFrame("lk")

LookupNext == LookupDeal \/ LookupScore

SpecLookup == LookupInit /\ [][LookupNext]_vars

\* The hole cards and the community cards of a game, in one sequence.
DealtCards(g) ==
    [k \in 1..(2 * Len(g.players)) |-> g.players[((k - 1) \div 2) + 1][((k - 1) % 2) + 1]]
        \o g.common

MainStep == MainSpawnRelay \/ MainDropTx \/ MainRecv

SpecRaceFair ==
    /\ RaceInit /\ [][RaceNext]_vars
    /\ WF_vars(MainStep)
    /\ \A w \in Workers : WF_vars(RelayJoin(w))
    /\ \A w \in Workers : WF_vars(WorkerIterate(w) \/ WorkerRestart(w))

SomeWorkerReturned == \E w \in Workers : wPc[w] = "returned"

AllWorkersPanicked == \A w \in Workers : wPc[w] = "panicked"

\* C30: simulated_annealing returns only if some worker has returned a deck
\* or every worker has panicked; when every worker has panicked it returns
\* new_deck_order(); while some worker runs and none has returned, whatever
\* the others did, it does not return; and under fair scheduling it does
\* return once some worker has returned or all have panicked.
C30_ReturnsIffWorkerReturnsOrAllPanic ==
    /\ [](mainPc = "returned" => SomeWorkerReturned \/ AllWorkersPanicked)
    /\ []((mainPc = "returned" /\ ~SomeWorkerReturned) => raceResult = 1)
    /\ (SomeWorkerReturned \/ AllWorkersPanicked) ~> mainPc = "returned"

\* A worker has panicked and its relay thread has ended, no worker has
\* returned, another still runs: the main thread waits in recv on the empty
\* channel, whose last sender is the relay thread of the running worker.
C30_Witness ==
    /\ mainPc = "recv" /\ channel = <<>> /\ senders = 1
    /\ ~SomeWorkerReturned
    /\ \E w \in Workers : wPc[w] = "panicked" /\ relayPc[w] = "done"
    /\ \E w \in Workers : wPc[w] = "running" /\ relayPc[w] = "joining"

=============================================================================
